---- MODULE Spec2Model ----
(***************************************************************************)
(* A model of the encurtador URL shortener: the URL service over its      *)
(* MySQL repository and Redis cache, the HTTP handlers in front of it and *)
(* the periodic cleanup.  Every request is a process that takes one step  *)
(* per call to the store, to the cache or to the clock, so that requests  *)
(* interleave exactly where the Go code lets them.                         *)
(***************************************************************************)
EXTENDS Integers, Sequences, FiniteSets, TLC

(***************************************************************************)
(* Bounds of the model.                                                    *)
(***************************************************************************)
MaxTime == 1
MaxCreates == 1

(***************************************************************************)
(* Program constants (service/url_service.go, model/url.go).  The clock   *)
(* counts hours: Hour is time.Hour.                                        *)
(***************************************************************************)
Hour == 1
autoSlugLength == 8
maxCollisionTries_Short == 10 - 1
maxCollisionTries == 10
maxAutoSlugTries == 10
slugMinLength == 5
slugMaxLength == 50

StatusOK == 200
StatusCreated == 201
StatusMovedPermanently == 301
StatusFound == 302
StatusBadRequest == 400
StatusUnauthorized == 401
StatusNotFound == 404
StatusConflict == 409
StatusInternalServerError == 500

ErrNone == "nil"
ErrSlugTaken == "ErrSlugTaken"
ErrInvalidSlugFormat == "ErrInvalidSlugFormat"
ErrInvalidTTL == "ErrInvalidTTL"
ErrInvalidPassword == "ErrInvalidPassword"
ErrInvalidManageToken == "ErrInvalidManageToken"
ErrStore == "inserting url"
ErrAutoSlug == "failed to generate a unique slug"
ErrBinding == "binding"

(***************************************************************************)
(* Characters and strings.  A slug is a sequence of one-character strings. *)
(***************************************************************************)
LowerChars ==
    {"a","b","c","d","e","f","g","h","i","j","k","l","m",
     "n","o","p","q","r","s","t","u","v","w","x","y","z"}
UpperChars ==
    {"A","B","C","D","E","F","G","H","I","J","K","L","M",
     "N","O","P","Q","R","S","T","U","V","W","X","Y","Z"}
DigitChars == <<"0","1","2","3","4","5","6","7","8","9">>
DigitSet == {DigitChars[k] : k \in 1..10}

Rep(c, n) == [k \in 1..n |-> c]

\* strconv/fmt %d of a non-negative integer
RECURSIVE Itoa(_)
Itoa(n) == IF n < 10 THEN <<DigitChars[n + 1]>>
           ELSE Itoa(n \div 10) \o <<DigitChars[(n % 10) + 1]>>

\* fmt.Sprintf("%s-%d", slug, i) in suggestAlternative
Candidate(slug, n) == slug \o <<"-">> \o Itoa(n)

\* the character class [a-zA-Z0-9-] of slugPattern
SlugClass == LowerChars \cup UpperChars \cup DigitSet \cup {"-"}

\* the greedy bounded repetition {min,max}: the number of characters a run of
\* the class consumes from position k on, at most slugMaxLength in all
RECURSIVE ClassRun(_, _)
ClassRun(s, k) ==
    IF k > Len(s) \/ k > slugMaxLength THEN k - 1
    ELSE IF s[k] \in SlugClass THEN ClassRun(s, k + 1) ELSE k - 1

slugPattern_NoMax(s) ==
    LET n == Len(SelectSeq(s, LAMBDA c : c \in SlugClass))
    IN  n >= slugMinLength /\ n = Len(s)

\* slugPattern.MatchString: ^ class{5,50} $ anchored at both ends
slugPattern(s) ==
    LET n == ClassRun(s, 1)
    IN  n >= slugMinLength /\ n = Len(s)

\* the token stored as it is
Sha256Hex_Plain(tok) == tok

\* sha256 + hex of a management token; bcrypt of a password
Sha256Hex(tok) == <<"sha256", tok>>
BcryptHash(pw) == <<"bcrypt", pw>>
BcryptCompare(hash, pw) == hash = BcryptHash(pw)

(***************************************************************************)
(* model.ValidTTLs                                                         *)
(***************************************************************************)
ValidTTLs_Month31 ==
    ("1h" :> Hour) @@ ("24h" :> 24 * Hour) @@ ("168h" :> 7 * 24 * Hour)
    @@ ("720h" :> 31 * 24 * Hour) @@ ("8760h" :> 365 * 24 * Hour)

ValidTTLs ==
    ("1h" :> Hour) @@ ("24h" :> 24 * Hour) @@ ("168h" :> 7 * 24 * Hour)
    @@ ("720h" :> 30 * 24 * Hour) @@ ("8760h" :> 365 * 24 * Hour)

(***************************************************************************)
(* model.URL, model.CachedURL and the cache payload.  An optional value   *)
(* is a sequence of length 0 or 1.                                         *)
(***************************************************************************)
Nil == <<>>
Some(x) == <<x>>

URL(target, passwordHash, manageTokenHash, expiresAt) ==
    [TargetURL |-> target, PasswordHash |-> passwordHash,
     ManageTokenHash |-> manageTokenHash, ExpiresAt |-> expiresAt]

\* URL.ToCached
ToCached(u) ==
    [TargetURL |-> u.TargetURL,
     Protected |-> u.PasswordHash # Nil,
     PasswordHash |-> IF u.PasswordHash # Nil THEN u.PasswordHash[1] ELSE <<>>]

\* json.Marshal of a CachedURL: password_hash has omitempty
MarshalCached(c) ==
    IF c.PasswordHash = <<>>
    THEN [target_url |-> c.TargetURL, protected |-> c.Protected]
    ELSE [target_url |-> c.TargetURL, protected |-> c.Protected,
          password_hash |-> c.PasswordHash]

\* json.Unmarshal into a zero CachedURL
UnmarshalCached(d) ==
    [TargetURL |-> d.target_url,
     Protected |-> d.protected,
     PasswordHash |-> IF "password_hash" \in DOMAIN d THEN d.password_hash ELSE <<>>]

(***************************************************************************)
(* randomBase62: rejection sampling over the bytes crypto/rand delivers.  *)
(***************************************************************************)
manageTokenLength == 32
base62Chars ==
    <<"0","1","2","3","4","5","6","7","8","9",
      "A","B","C","D","E","F","G","H","I","J","K","L","M",
      "N","O","P","Q","R","S","T","U","V","W","X","Y","Z",
      "a","b","c","d","e","f","g","h","i","j","k","l","m",
      "n","o","p","q","r","s","t","u","v","w","x","y","z">>
unbiasedCeiling == 256 - (256 % Len(base62Chars))

RECURSIVE randomBase62From(_, _, _)
randomBase62From(bytes, length, result) ==
    IF Len(result) = length \/ bytes = <<>> THEN result
    ELSE LET b == Head(bytes)
         IN  IF b < unbiasedCeiling
             THEN randomBase62From(Tail(bytes), length,
                                   Append(result, base62Chars[(b % Len(base62Chars)) + 1]))
             ELSE randomBase62From(Tail(bytes), length, result)

\* randomBase62(length) on the byte stream rand.Read returns
randomBase62(bytes, length) == randomBase62From(bytes, length, <<>>)

\* the byte streams the random source is sampled at
SlugStreams == { Rep(0, 8), <<255, 248>> \o Rep(247, 8) }
TokenStreams == { <<250>> \o Rep(61, 32) }
GenSlugs == { randomBase62(bs, autoSlugLength) : bs \in SlugStreams }
Tokens == { randomBase62(bs, manageTokenLength) : bs \in TokenStreams }

(***************************************************************************)
(* The repository (MySQL table urls, keyed by the unique slug) and the    *)
(* cache (Redis keys with a time to live), as functions of their state.   *)
(* st is the table: a function from the slugs present to their rows; t is *)
(* NOW().  c is the cache: a function from slugs to [data, deadline].     *)
(***************************************************************************)
SlugExists(st, slug) == slug \in DOMAIN st

FindBySlug(st, slug, t) ==
    IF slug \in DOMAIN st /\ st[slug].ExpiresAt > t THEN Some(st[slug]) ELSE Nil

ExpireWhere_AnyToken(st, slug, hash, t) ==
    slug \in DOMAIN st /\ st[slug].ExpiresAt > t

ExpireWhere_AnyTime(st, slug, hash, t) ==
    slug \in DOMAIN st /\ st[slug].ManageTokenHash = hash

\* an UPDATE that also takes a row expiring at this very moment
ExpireWhere_NotLater(st, slug, hash, t) ==
    slug \in DOMAIN st /\ st[slug].ManageTokenHash = hash /\ st[slug].ExpiresAt >= t

\* the WHERE clause of ExpireBySlug's UPDATE
ExpireWhere(st, slug, hash, t) ==
    slug \in DOMAIN st /\ st[slug].ManageTokenHash = hash /\ st[slug].ExpiresAt > t

\* a DELETE that stops after the first expired row
DeleteExpired_One(st, t) ==
    LET gone == {x \in DOMAIN st : st[x].ExpiresAt < t}
        first == IF gone = {} THEN {}
                 ELSE {CHOOSE x \in gone : \A y \in gone : Len(x) <= Len(y)}
    IN  [s \in DOMAIN st \ first |-> st[s]]

\* the rows DeleteExpired leaves
DeleteExpired(st, t) ==
    [s \in {x \in DOMAIN st : ~(st[x].ExpiresAt < t)} |-> st[s]]

Put(f, k, v) == [x \in DOMAIN f \cup {k} |-> IF x = k THEN v ELSE f[x]]
Drop(f, k) == [x \in DOMAIN f \ {k} |-> f[x]]

CacheGet(c, slug) ==
    IF slug \in DOMAIN c THEN Some(UnmarshalCached(c[slug].data)) ELSE Nil

CacheSet_NoTTL(c, slug, cached, ttl, t) ==
    Put(c, slug, [data |-> MarshalCached(cached), deadline |-> t + 365 * 24 * Hour])

\* SET key value EX ttl: the key lives until t + ttl
CacheSet(c, slug, cached, ttl, t) ==
    Put(c, slug, [data |-> MarshalCached(cached), deadline |-> t + ttl])

CacheDelete(c, slug) == Drop(c, slug)

\* Redis drops a key once its time to live has run out
Evict(c, t) == [s \in {x \in DOMAIN c : c[x].deadline > t} |-> c[s]]

(***************************************************************************)
(* The state.                                                              *)
(*   now     the clock, in hours                                           *)
(*   store   the urls table                                                *)
(*   cache   the Redis keys                                                *)
(*   procs   the requests in flight, one record per request slot           *)
(*   creates the number of Create requests so far                         *)
(*   expiry  history: the slugs whose present record an ExpireEarly has    *)
(*           updated ("updated") and then reported as expired ("returned") *)
(***************************************************************************)
VARIABLES now, store, cache, procs, creates, expiry
vars == <<now, store, cache, procs, creates, expiry>>

\* the request slots
Procs == DOMAIN procs

(***************************************************************************)
(* The inputs requests are drawn from.                                     *)
(***************************************************************************)
SlugA == <<"a","B","-","4","2">>
Slug50 == Rep("z", 50)
SlugShort == <<"a","b","c","d">>
SlugLong == Rep("z", 51)
SlugBadChar == <<"a","b","_","d","e">>
NoSlug == <<>>

TargetA == "https://example.com"
TargetB == "http://b.example.org/x"
TargetBad == "ftp://example.com"

\* url.Parse on the targets above
ParseURL(raw) ==
    CASE raw = TargetA -> [Scheme |-> "https", Host |-> "example.com"]
      [] raw = TargetB -> [Scheme |-> "http", Host |-> "b.example.org"]
      [] raw = TargetBad -> [Scheme |-> "ftp", Host |-> "example.com"]
      [] OTHER -> [Scheme |-> "", Host |-> ""]

\* validateHTTPURL
validateHTTPURL(raw) ==
    LET u == ParseURL(raw)
    IN  ~((u.Scheme # "http" /\ u.Scheme # "https") \/ u.Host = "")

CreateReq(target, slug, ttl, password) ==
    [TargetURL |-> target, Slug |-> slug, TTL |-> ttl, Password |-> password]

\* the workload of Spec: an open link under SlugA, created beside or after the
\* protected link an earlier run has left there, looked up, unlocked and expired
CreateInputs == { CreateReq(TargetA, SlugA, "1h", "") }

\* the workload of SpecCreate: every TTL, every kind of slug
SlugInputs ==
    { CreateReq(TargetA, SlugA, "1h", ""),
      CreateReq(TargetB, SlugA, "24h", "secret"),
      CreateReq(TargetA, NoSlug, "168h", ""),
      CreateReq(TargetA, Slug50, "720h", ""),
      CreateReq(TargetB, SlugA, "8760h", ""),
      CreateReq(TargetA, SlugShort, "1h", ""),
      CreateReq(TargetA, SlugLong, "24h", ""),
      CreateReq(TargetA, SlugBadChar, "1h", ""),
      CreateReq(TargetA, SlugA, "2h", ""),
      CreateReq(TargetA, SlugShort, "2h", ""),
      CreateReq(TargetBad, SlugA, "1h", "") }

CheckInputs == { SlugA, Slug50, SlugShort, SlugLong, SlugBadChar }
LookupSlugs == { SlugA }
WrongToken == Rep("0", 32)
ExpireTokens == Tokens \cup { WrongToken, <<>> }

\* a request slot that holds no request
Idle ==
    [pc |-> "idle", op |-> "none", slug |-> <<>>, req |-> CreateReq("", <<>>, "", ""),
     password |-> "", token |-> <<>>, http |-> TRUE,
     i |-> 0, cand |-> <<>>, clock |-> 0, ttl |-> 0, url |-> Nil,
     out |-> Nil, target |-> "", err |-> ErrNone, status |-> 0, body |-> "",
     calls |-> 0, wrote |-> FALSE, stable |-> TRUE, dom0 |-> {}]

Free(p) == procs[p].pc = "idle"

\* a finished request hands over its answer before anything else happens
NoneDone == \A q \in Procs : procs[q].pc # "done"

\* request p is about to take the step named pc
At(p, pc) == NoneDone /\ procs[p].pc = pc

\* a request takes the lowest free slot (slots are interchangeable)
CanStart(p) ==
    /\ NoneDone
    /\ Free(p)
    /\ \A q \in Procs : q < p => ~Free(q)

\* a change of the set of slugs in the table disturbs the requests that are
\* between their first look at the table and their write
Disturb(r, changed) ==
    IF changed /\ r.pc \in {"probe", "gen", "prepare", "insert"}
    THEN [r EXCEPT !.stable = FALSE] ELSE r

\* The table and the cache outlive the process.  It starts on an empty table,
\* or on one where an earlier run has created a protected link under SlugA,
\* with its cache entry still there or gone.
EarlierURL ==
    URL(TargetB, Some(BcryptHash("secret")),
        Sha256Hex(CHOOSE tok \in Tokens : TRUE), ValidTTLs["24h"])

Init ==
    /\ now = 0
    /\ \/ store = <<>> /\ cache = <<>>
       \/ /\ store = Put(<<>>, SlugA, EarlierURL)
          /\ \/ cache = <<>>
             \/ cache = CacheSet(<<>>, SlugA, ToCached(EarlierURL), ValidTTLs["24h"], 0)
    /\ procs = [p \in {1, 2} |-> Idle]
    /\ creates = 0
    /\ expiry = <<>>

\* the table a process finds at its start: the requested slug and some of its
\* suffixed variants taken by earlier runs (k = 1 stands for the slug itself)
Variant(slug, k) == IF k = 1 THEN slug ELSE Candidate(slug, k)
TakenSets == { {}, {1}, {1, 2}, {1, 3}, 1..9, 1..10 }
Prefilled(taken) ==
    [s \in {Variant(SlugA, k) : k \in taken} |->
        URL(TargetA, Nil, Sha256Hex(WrongToken), 24 * Hour)]

\* ... or the longest slug the pattern admits taken
PrefilledLong ==
    [s \in {Slug50} |-> URL(TargetA, Nil, Sha256Hex(WrongToken), 24 * Hour)]

\* ... or every slug the generator can deliver taken
PrefilledGen ==
    [s \in GenSlugs |-> URL(TargetA, Nil, Sha256Hex(WrongToken), 24 * Hour)]

InitCreate ==
    /\ now = 0
    /\ \/ \E taken \in TakenSets : store = Prefilled(taken)
       \/ store = PrefilledLong
       \/ store = PrefilledGen
    /\ cache = <<>>
    /\ procs = [p \in {1} |-> Idle]
    /\ creates = 0
    /\ expiry = <<>>

(***************************************************************************)
(* How a request ends: the handler's answer.                               *)
(***************************************************************************)
Done(r, err, status, body) ==
    [r EXCEPT !.pc = "done", !.err = err, !.status = status, !.body = body,
              !.i = 0, !.cand = <<>>, !.url = Nil, !.ttl = 0]

\* CreateURL's switch on the service error
createStatus(err) ==
    CASE err = ErrSlugTaken -> StatusConflict
      [] err = ErrInvalidSlugFormat -> StatusBadRequest
      [] err = ErrInvalidTTL -> StatusBadRequest
      [] OTHER -> StatusInternalServerError

CreateFails(r, err) == Done(r, err, createStatus(err), "error")

\* CheckSlug (handler) on the service result
CheckFails(r, err) ==
    Done(r, err,
         IF err = ErrInvalidSlugFormat THEN StatusBadRequest
         ELSE StatusInternalServerError, "error")

CheckAnswers_NoSuggestion(r, available, suggestion) ==
    Done([r EXCEPT !.out = Some([available |-> available, suggestion |-> <<>>])],
         ErrNone, StatusOK, "json")

CheckAnswers(r, available, suggestion) ==
    Done([r EXCEPT !.out = Some([available |-> available, suggestion |-> suggestion])],
         ErrNone, StatusOK, "json")

\* VerifyPassword once lookupCached has returned cached
VerifyPassword(cached, password) ==
    IF cached = Nil THEN [target |-> "", err |-> ErrNone]
    ELSE IF ~cached[1].Protected THEN [target |-> cached[1].TargetURL, err |-> ErrNone]
    ELSE IF ~BcryptCompare(cached[1].PasswordHash, password)
         THEN [target |-> "", err |-> ErrInvalidPassword]
         ELSE [target |-> cached[1].TargetURL, err |-> ErrNone]

\* RedirectOrGate on what Resolve returned
RedirectAnswers(r, cached) ==
    LET r1 == [r EXCEPT !.op = "RedirectOrGate", !.out = cached]
    IN  IF cached = Nil THEN Done(r1, ErrNone, StatusFound, "/404")
        ELSE IF cached[1].Protected THEN Done(r1, ErrNone, StatusFound, "/gate/")
        ELSE Done(r1, ErrNone, StatusMovedPermanently, cached[1].TargetURL)

\* UnlockURL on what VerifyPassword returned.  in.http: the request came through
\* UnlockURL, whose binding requires a password; otherwise VerifyPassword is
\* called as the service's method
UnlockAnswers(r, in, cached) ==
    LET v  == VerifyPassword(cached, in.password)
        r1 == [r EXCEPT !.op = "UnlockURL", !.password = in.password,
                        !.http = in.http, !.out = cached, !.target = v.target]
    IN  IF v.err = ErrInvalidPassword THEN Done(r1, v.err, StatusUnauthorized, "error")
        ELSE IF v.target = "" THEN Done(r1, v.err, StatusNotFound, "error")
        ELSE Done(r1, v.err, StatusOK, v.target)

\* The callers of lookupCached: Resolve for RedirectOrGate, VerifyPassword for
\* UnlockURL or on its own.  Neither the caller nor the password reaches
\* lookupCached, so a lookup in flight does not record them: they are fixed
\* when lookupCached returns.
Passwords == { "secret", "guess" }
Callers ==
    { [op |-> "RedirectOrGate", password |-> "", http |-> TRUE] }
    \cup { [op |-> "UnlockURL", password |-> pw, http |-> TRUE] : pw \in Passwords }
    \cup { [op |-> "UnlockURL", password |-> "", http |-> FALSE] }

\* lookupCached returns cached to Resolve or to VerifyPassword
LookupReturns(r, caller, cached) ==
    IF caller.op = "RedirectOrGate" THEN RedirectAnswers(r, cached)
    ELSE UnlockAnswers(r, caller, cached)

(***************************************************************************)
(* POST /urls: CreateURL, URLService.Create, resolveSlug.                  *)
(***************************************************************************)
\* CreateURL and Create up to the first query of the table
Admit(p, req) ==
    /\ CanStart(p)
    /\ creates' = creates + 1
    /\ LET r == [Idle EXCEPT !.op = "CreateURL", !.req = req, !.slug = req.Slug]
       IN  procs' = [procs EXCEPT ![p] =
             IF req.TargetURL = "" \/ req.TTL = "" THEN
                 Done(r, ErrBinding, StatusBadRequest, "error")
             ELSE IF ~validateHTTPURL(req.TargetURL) THEN
                 Done(r, ErrBinding, StatusBadRequest, "error")
             ELSE IF req.TTL \notin DOMAIN ValidTTLs THEN
                 CreateFails(r, ErrInvalidTTL)
             ELSE IF req.Slug = <<>> THEN
                 [r EXCEPT !.pc = "gen"]
             ELSE IF ~slugPattern(req.Slug) THEN
                 CreateFails(r, ErrInvalidSlugFormat)
             ELSE
                 [r EXCEPT !.pc = "exists"]]
    /\ UNCHANGED <<now, store, cache, expiry>>

\* a Create request arrives, while the workload allows one more
StartCreate(p, req) == creates < MaxCreates /\ Admit(p, req)

\* ... in the two-writer workload, which has room for one Create more
StartRacer(p, req) == creates < MaxCreates + 1 /\ Admit(p, req)

\* GET /urls/check/:slug: CheckSlug up to its first query
StartCheck(p, slug) ==
    /\ CanStart(p)
    /\ LET r == [Idle EXCEPT !.op = "CheckSlug", !.slug = slug]
       IN  procs' = [procs EXCEPT ![p] =
             IF ~slugPattern(slug) THEN CheckFails(r, ErrInvalidSlugFormat)
             ELSE [r EXCEPT !.pc = "exists"]]
    /\ UNCHANGED <<now, store, cache, creates, expiry>>

\* repo.SlugExists on the requested slug (resolveSlug, CheckSlug)
RequestedExists(p) ==
    LET r  == procs[p]
        r1 == [r EXCEPT !.calls = r.calls + 1, !.dom0 = DOMAIN store]
    IN  /\ At(p, "exists")
        /\ procs' = [procs EXCEPT ![p] =
             IF SlugExists(store, r.slug) THEN [r1 EXCEPT !.pc = "probe", !.i = 2]
             ELSE IF r.op = "CreateURL" THEN [r1 EXCEPT !.pc = "prepare", !.cand = r.slug]
             ELSE CheckAnswers(r1, TRUE, <<>>)]
        /\ UNCHANGED <<now, store, cache, creates, expiry>>

\* one turn of suggestAlternative's loop
Probe(p) ==
    LET r    == procs[p]
        r1   == [r EXCEPT !.calls = r.calls + 1]
        cand == Candidate(r.slug, r.i)
    IN  /\ At(p, "probe")
        /\ procs' = [procs EXCEPT ![p] =
             IF ~SlugExists(store, cand) THEN
                 IF r.op = "CreateURL" THEN [r1 EXCEPT !.pc = "prepare", !.cand = cand]
                 ELSE CheckAnswers(r1, FALSE, cand)
             ELSE IF r.i + 1 <= maxCollisionTries THEN
                 [r1 EXCEPT !.i = r.i + 1]
             ELSE IF r.op = "CreateURL" THEN CreateFails(r1, ErrSlugTaken)
             ELSE CheckAnswers(r1, FALSE, <<>>)]
        /\ UNCHANGED <<now, store, cache, creates, expiry>>

\* a generator that hands out its first candidate without asking the table
Generate_Unchecked(p) ==
    LET r  == procs[p]
    IN  /\ At(p, "gen")
        /\ \E slug \in GenSlugs :
             procs' = [procs EXCEPT ![p] = [r EXCEPT !.pc = "prepare", !.cand = slug]]
        /\ UNCHANGED <<now, store, cache, creates, expiry>>

\* one turn of generateUniqueSlug's loop
Generate(p) ==
    LET r  == procs[p]
        r1 == [r EXCEPT !.calls = r.calls + 1]
    IN  /\ At(p, "gen")
        /\ \E slug \in GenSlugs :
             procs' = [procs EXCEPT ![p] =
               IF ~SlugExists(store, slug) THEN [r1 EXCEPT !.pc = "prepare", !.cand = slug]
               ELSE IF r.i + 1 < maxAutoSlugTries THEN [r1 EXCEPT !.i = r.i + 1]
               ELSE CreateFails(r1, ErrAutoSlug)]
        /\ UNCHANGED <<now, store, cache, creates, expiry>>

\* Create between resolveSlug and repo.Create: the password hash, the manage
\* token and the clock
Prepare(p) ==
    LET r == procs[p]
    IN  /\ At(p, "prepare")
        /\ \E tok \in Tokens :
             LET hash == IF r.req.Password # "" THEN Some(BcryptHash(r.req.Password))
                         ELSE Nil
                 ttlDuration == ValidTTLs[r.req.TTL]
                 expiresAt == now + ttlDuration
             IN  procs' = [procs EXCEPT ![p] =
                   [r EXCEPT !.pc = "insert", !.token = tok, !.clock = now,
                             !.ttl = ttlDuration,
                             !.url = Some(URL(r.req.TargetURL, hash, Sha256Hex(tok),
                                              expiresAt))]]
        /\ UNCHANGED <<now, store, cache, creates, expiry>>

\* the cache is warmed with the record before the INSERT's result is known
Insert_WarmsFirst(p) ==
    LET r  == procs[p]
        r1 == [r EXCEPT !.calls = r.calls + 1]
        ok == ~SlugExists(store, r.cand)
    IN  /\ At(p, "insert")
        /\ cache' = CacheSet(cache, r.cand, ToCached(r.url[1]), r.ttl, now)
        /\ store' = IF ok THEN Put(store, r.cand, r.url[1]) ELSE store
        /\ expiry' = IF ok THEN Drop(expiry, r.cand) ELSE expiry
        /\ procs' = [q \in Procs |->
             IF q # p THEN Disturb(procs[q], ok)
             ELSE IF ok THEN [r1 EXCEPT !.pc = "warm", !.wrote = TRUE]
             ELSE CreateFails(r1, ErrStore)]
        /\ UNCHANGED <<now, creates>>

\* an INSERT IGNORE: a refused row is dropped without an error
Insert_Ignore(p) ==
    LET r  == procs[p]
        r1 == [r EXCEPT !.calls = r.calls + 1]
        ok == ~SlugExists(store, r.cand)
    IN  /\ At(p, "insert")
        /\ store' = IF ok THEN Put(store, r.cand, r.url[1]) ELSE store
        /\ expiry' = IF ok THEN Drop(expiry, r.cand) ELSE expiry
        /\ procs' = [q \in Procs |->
             IF q # p THEN Disturb(procs[q], ok)
             ELSE [r1 EXCEPT !.pc = "warm", !.wrote = ok]]
        /\ UNCHANGED <<now, cache, creates>>

\* an INSERT that replaces the row of a slug that is present
Insert_Upsert(p) ==
    LET r  == procs[p]
        r1 == [r EXCEPT !.calls = r.calls + 1]
    IN  /\ At(p, "insert")
        /\ store' = Put(store, r.cand, r.url[1])
        /\ expiry' = Drop(expiry, r.cand)
        /\ procs' = [q \in Procs |->
             IF q # p THEN Disturb(procs[q], ~SlugExists(store, r.cand))
             ELSE [r1 EXCEPT !.pc = "warm", !.wrote = TRUE]]
        /\ UNCHANGED <<now, cache, creates>>

\* repo.Create: the INSERT, which the unique key on slug refuses for a slug
\* that is present
Insert(p) ==
    LET r  == procs[p]
        r1 == [r EXCEPT !.calls = r.calls + 1]
        ok == ~SlugExists(store, r.cand)
    IN  /\ At(p, "insert")
        /\ store' = IF ok THEN Put(store, r.cand, r.url[1]) ELSE store
        /\ expiry' = IF ok THEN Drop(expiry, r.cand) ELSE expiry
        /\ procs' = [q \in Procs |->
             IF q # p THEN Disturb(procs[q], ok)
             ELSE IF ok THEN [r1 EXCEPT !.pc = "warm", !.wrote = TRUE]
             ELSE CreateFails(r1, ErrStore)]
        /\ UNCHANGED <<now, cache, creates>>

\* Create's cache.Set and its result
Warm(p) ==
    LET r == procs[p]
        u == r.url[1]
        result == [Slug |-> r.cand, ExpiresAt |-> u.ExpiresAt,
                   Protected |-> u.PasswordHash # Nil, ManageToken |-> r.token]
    IN  /\ At(p, "warm")
        /\ \E ok \in BOOLEAN :
             cache' = IF ok THEN CacheSet(cache, r.cand, ToCached(u), r.ttl, now)
                      ELSE cache
        /\ procs' = [procs EXCEPT ![p] =
             Done([r EXCEPT !.out = Some(result)], ErrNone, StatusCreated, "json")]
        /\ UNCHANGED <<now, store, creates, expiry>>

(***************************************************************************)
(* GET /:slug and POST /urls/:slug/unlock: RedirectOrGate, UnlockURL,     *)
(* Resolve, VerifyPassword, lookupCached.                                  *)
(***************************************************************************)
\* UnlockURL refuses a body without a password before it calls the service
UnlockUnbound(p, slug) ==
    /\ CanStart(p)
    /\ procs' = [procs EXCEPT ![p] =
         Done([Idle EXCEPT !.op = "UnlockURL", !.slug = slug],
              ErrBinding, StatusBadRequest, "error")]
    /\ UNCHANGED <<now, store, cache, creates, expiry>>

\* a lookup starts with lookupCached's cache.Get; a failed Get leaves cached nil
Lookup(p, slug) ==
    LET r == [Idle EXCEPT !.op = "lookup", !.slug = slug]
    IN  /\ CanStart(p)
        /\ \E ok \in BOOLEAN, caller \in Callers :
             LET cached == IF ok THEN CacheGet(cache, slug) ELSE Nil
             IN  procs' = [procs EXCEPT ![p] =
                   IF cached # Nil THEN LookupReturns(r, caller, cached)
                   ELSE [r EXCEPT !.pc = "find"]]
        /\ UNCHANGED <<now, store, cache, creates, expiry>>

\* lookupCached: repo.FindBySlug
Find(p) ==
    LET r  == procs[p]
        r1 == [r EXCEPT !.calls = r.calls + 1]
        u  == FindBySlug(store, r.slug, now)
    IN  /\ At(p, "find")
        /\ \E caller \in Callers :
             procs' = [procs EXCEPT ![p] =
               IF u = Nil THEN LookupReturns(r1, caller, Nil)
               ELSE [r1 EXCEPT !.pc = "until", !.url = u]]
        /\ UNCHANGED <<now, store, cache, creates, expiry>>

\* lookupCached: remaining := time.Until(url.ExpiresAt)
Until(p) ==
    LET r == procs[p]
        remaining == r.url[1].ExpiresAt - now
    IN  /\ At(p, "until")
        /\ \E caller \in Callers :
             procs' = [procs EXCEPT ![p] =
               IF remaining <= 0 THEN LookupReturns(r, caller, Nil)
               ELSE [r EXCEPT !.pc = "fill", !.ttl = remaining]]
        /\ UNCHANGED <<now, store, cache, creates, expiry>>

\* lookupCached: cache.Set with the remaining time, and the return
Fill(p) ==
    LET r == procs[p]
        cached == ToCached(r.url[1])
    IN  /\ At(p, "fill")
        /\ \E ok \in BOOLEAN :
             cache' = IF ok THEN CacheSet(cache, r.slug, cached, r.ttl, now) ELSE cache
        /\ \E caller \in Callers :
             procs' = [procs EXCEPT ![p] = LookupReturns(r, caller, Some(cached))]
        /\ UNCHANGED <<now, store, creates, expiry>>

(***************************************************************************)
(* POST /urls/:slug/expire: ExpireURL, ExpireEarly, ExpireBySlug.          *)
(***************************************************************************)
StartExpire(p, slug, tok) ==
    /\ CanStart(p)
    /\ LET r == [Idle EXCEPT !.op = "ExpireURL", !.slug = slug, !.token = tok]
       IN  procs' = [procs EXCEPT ![p] =
             IF tok = <<>> THEN Done(r, ErrBinding, StatusBadRequest, "error")
             ELSE [r EXCEPT !.pc = "expire"]]
    /\ UNCHANGED <<now, store, cache, creates, expiry>>

\* repo.ExpireBySlug: one UPDATE, and whether it changed a row
Expire(p) ==
    LET r  == procs[p]
        r1 == [r EXCEPT !.calls = r.calls + 1]
        updated == ExpireWhere(store, r.slug, Sha256Hex(r.token), now)
    IN  /\ At(p, "expire")
        /\ store' = IF updated THEN [store EXCEPT ![r.slug].ExpiresAt = now] ELSE store
        /\ expiry' = IF updated THEN Put(expiry, r.slug, "updated") ELSE expiry
        /\ procs' = [procs EXCEPT ![p] =
             IF updated THEN [r1 EXCEPT !.pc = "invalidate", !.wrote = TRUE]
             ELSE Done(r1, ErrInvalidManageToken, StatusUnauthorized, "error")]
        /\ UNCHANGED <<now, cache, creates>>

\* ExpireEarly: cache.Delete (a failure is logged) and the return
Invalidate(p) ==
    LET r == procs[p]
    IN  /\ At(p, "invalidate")
        /\ \E ok \in BOOLEAN :
             cache' = IF ok THEN CacheDelete(cache, r.slug) ELSE cache
        /\ expiry' = IF r.slug \in DOMAIN expiry THEN Put(expiry, r.slug, "returned")
                     ELSE expiry
        /\ procs' = [procs EXCEPT ![p] = Done(r, ErrNone, StatusOK, "json")]
        /\ UNCHANGED <<now, store, creates>>

(***************************************************************************)
(* The clock and the cleanup goroutine.                                    *)
(***************************************************************************)
Tick ==
    /\ NoneDone
    /\ now < MaxTime
    /\ now' = now + Hour
    /\ cache' = Evict(cache, now')
    /\ UNCHANGED <<store, procs, creates, expiry>>

\* RunCleanup: the ticker fires and DeleteExpired runs
Cleanup ==
    /\ NoneDone
    /\ store' = DeleteExpired(store, now)
    /\ procs' = [q \in Procs |-> Disturb(procs[q], DOMAIN store' # DOMAIN store)]
    /\ UNCHANGED <<now, cache, creates, expiry>>

\* the handler has written its answer: the request's slot is free again
Return(p) ==
    /\ procs[p].pc = "done"
    /\ procs' = [procs EXCEPT ![p] = Idle]
    /\ UNCHANGED <<now, store, cache, creates, expiry>>

Next ==
    \/ \E p \in Procs, req \in CreateInputs : StartCreate(p, req)
    \/ \E p \in Procs, slug \in LookupSlugs : Lookup(p, slug)
    \/ \E p \in Procs, slug \in LookupSlugs : UnlockUnbound(p, slug)
    \/ \E p \in Procs, slug \in LookupSlugs, tok \in ExpireTokens : StartExpire(p, slug, tok)
    \/ \E p \in Procs : RequestedExists(p)
    \/ \E p \in Procs : Probe(p)
    \/ \E p \in Procs : Prepare(p)
    \/ \E p \in Procs : Insert(p)
    \/ \E p \in Procs : Warm(p)
    \/ \E p \in Procs : Find(p)
    \/ \E p \in Procs : Until(p)
    \/ \E p \in Procs : Fill(p)
    \/ \E p \in Procs : Expire(p)
    \/ \E p \in Procs : Invalidate(p)
    \/ \E p \in Procs : Return(p)
    \/ Tick
    \/ Cleanup

Spec == Init /\ [][Next]_vars

NextCreate ==
    \/ \E p \in Procs, req \in SlugInputs : StartCreate(p, req)
    \/ \E p \in Procs, slug \in CheckInputs : StartCheck(p, slug)
    \/ \E p \in Procs : RequestedExists(p)
    \/ \E p \in Procs : Probe(p)
    \/ \E p \in Procs : Generate(p)
    \/ \E p \in Procs : Prepare(p)
    \/ \E p \in Procs : Insert(p)
    \/ \E p \in Procs : Warm(p)
    \/ \E p \in Procs : Return(p)
    \/ Tick
    \/ Cleanup

SpecCreate == InitCreate /\ [][NextCreate]_vars

(***************************************************************************)
(* Two writers: Create requests for one slug running side by side, on a   *)
(* table where the slug is free, taken, or taken with all its variants.   *)
(***************************************************************************)
RaceInputs ==
    { CreateReq(TargetA, SlugA, "1h", ""),
      CreateReq(TargetB, SlugA, "24h", "secret"),
      CreateReq(TargetA, SlugShort, "1h", ""),
      CreateReq(TargetA, SlugA, "2h", "") }

\* a table where an earlier run has left a row under SlugA that has expired
\* and that no sweep has deleted yet
PrefilledStale ==
    [s \in {SlugA} |-> URL(TargetB, Nil, Sha256Hex(WrongToken), 0 - Hour)]

InitRace ==
    /\ now = 0
    /\ \/ \E taken \in { {}, 1..10 } : store = Prefilled(taken)
       \/ store = PrefilledStale
    /\ cache = <<>>
    /\ procs = [p \in {1, 2} |-> Idle]
    /\ creates = 0
    /\ expiry = <<>>

NextRace ==
    \/ \E p \in Procs, req \in RaceInputs : StartRacer(p, req)
    \/ \E p \in Procs : RequestedExists(p)
    \/ \E p \in Procs : Probe(p)
    \/ \E p \in Procs : Prepare(p)
    \/ \E p \in Procs : Insert(p)
    \/ \E p \in Procs : Warm(p)
    \/ \E p \in Procs : Return(p)
    \/ Tick
    \/ Cleanup

SpecRace == InitRace /\ [][NextRace]_vars

(***************************************************************************)
(* The cleanup goroutine and the shutdown.  main starts RunCleanup with    *)
(* appCtx and cancels appCtx when it shuts down.  The goroutine has slot   *)
(* Sweeper of procs; its record holds                                      *)
(*   pc      "select" (in the loop) or "returned"                          *)
(*   ctx     appCtx: "live" or "canceled"                                  *)
(*   ticks   the ticks waiting in ticker.C, a channel of capacity 1        *)
(*   err     what the last DeleteExpired returned                          *)
(*   logged  history: "periodic cleanup failed" has been logged            *)
(*   swept   history: the slugs whose rows its DELETEs have removed        *)
(***************************************************************************)
Sweeper == 0

RunCleanupStart ==
    [pc |-> "select", op |-> "RunCleanup", ctx |-> "live", ticks |-> 0,
     err |-> ErrNone, logged |-> FALSE, swept |-> {}]

\* an hour passes: the clock moves on and the ticker, unless it is stopped,
\* sends a tick, which is dropped when one is waiting.  The last hour of the
\* clock stands for every later one: the ticks go on.
Elapse ==
    LET g == procs[Sweeper]
    IN  /\ now' = IF now < MaxTime + 1 THEN now + Hour ELSE now
        /\ cache' = Evict(cache, now')
        /\ procs' = [procs EXCEPT ![Sweeper] =
             IF g.pc = "select" THEN [g EXCEPT !.ticks = 1] ELSE g]
        /\ UNCHANGED <<store, creates, expiry>>

\* an error of DeleteExpired ends the loop
Logged_Fatal(g, failed) ==
    [g EXCEPT !.err = IF failed THEN ErrStore ELSE ErrNone,
              !.logged = g.logged \/ failed,
              !.pc = IF failed THEN "returned" ELSE g.pc]

\* if err := DeleteExpired(ctx); err != nil { slog.Error(...) }: the loop goes on
Logged(g, failed) ==
    [g EXCEPT !.err = IF failed THEN ErrStore ELSE ErrNone,
              !.logged = g.logged \/ failed]

\* case <-ticker.C: DeleteExpired(ctx).  With ctx canceled ExecContext returns
\* ctx's error before it sends the statement; otherwise the DELETE runs or
\* not, and an error may come back either way.
Sweep(done, failed) ==
    LET g == procs[Sweeper]
        sent == done /\ g.ctx = "live"
        bad == failed \/ g.ctx # "live"
    IN  /\ g.pc = "select"
        /\ g.ticks = 1
        /\ done \/ failed
        /\ store' = IF sent THEN DeleteExpired(store, now) ELSE store
        /\ procs' = [q \in Procs |->
             IF q = Sweeper
             THEN Logged([g EXCEPT !.ticks = 0,
                                   !.swept = g.swept \cup (DOMAIN store \ DOMAIN store')],
                         bad)
             ELSE Disturb(procs[q], DOMAIN store' # DOMAIN store)]
        /\ UNCHANGED <<now, cache, creates, expiry>>

RunCleanupTick == \E done, failed \in BOOLEAN : Sweep(done, failed)

\* the loop that does not look at ctx.Done()
RunCleanupDone_Deaf ==
    LET g == procs[Sweeper]
    IN  /\ g.pc = "select"
        /\ g.ctx = "canceled"
        /\ UNCHANGED vars

\* case <-ctx.Done(): return (and the deferred ticker.Stop())
RunCleanupDone ==
    LET g == procs[Sweeper]
    IN  /\ g.pc = "select"
        /\ g.ctx = "canceled"
        /\ procs' = [procs EXCEPT ![Sweeper] = [g EXCEPT !.pc = "returned"]]
        /\ UNCHANGED <<now, store, cache, creates, expiry>>

\* main on SIGINT, SIGTERM or a server error: cancel()
Cancel ==
    LET g == procs[Sweeper]
    IN  /\ g.ctx = "live"
        /\ procs' = [procs EXCEPT ![Sweeper] = [g EXCEPT !.ctx = "canceled"]]
        /\ UNCHANGED <<now, store, cache, creates, expiry>>

\* the table the process starts on: some of a live link under SlugA that its
\* token can expire, a link that expires within the hour, and an expired row
\* no sweep has deleted yet
SweepRows ==
    [s \in {SlugA, Candidate(SlugA, 2), Candidate(SlugA, 3)} |->
        IF s = SlugA THEN EarlierURL
        ELSE IF s = Candidate(SlugA, 2) THEN URL(TargetA, Nil, Sha256Hex(WrongToken), Hour)
        ELSE URL(TargetB, Nil, Sha256Hex(WrongToken), 0 - Hour)]

InitSweep ==
    /\ now = 0
    /\ \E D \in SUBSET DOMAIN SweepRows : store = [s \in D |-> SweepRows[s]]
    /\ cache = <<>>
    /\ procs = [p \in {Sweeper, 1} |-> IF p = Sweeper THEN RunCleanupStart ELSE Idle]
    /\ creates = 0
    /\ expiry = <<>>

\* the requests that run beside the goroutine
Requests == Procs \ {Sweeper}

NextSweep ==
    \/ \E p \in Requests, slug \in LookupSlugs, tok \in ExpireTokens : StartExpire(p, slug, tok)
    \/ \E p \in Requests : Expire(p)
    \/ \E p \in Requests : Invalidate(p)
    \/ \E p \in Requests : Return(p)
    \/ Elapse
    \/ RunCleanupTick

\* the process keeps running: the hours pass, the handlers return, the
\* goroutine takes the ticks, and DeleteExpired does not fail for ever
SpecSweep ==
    /\ InitSweep
    /\ [][NextSweep]_vars
    /\ WF_vars(Elapse)
    /\ WF_vars(RunCleanupTick)
    /\ SF_vars(Sweep(TRUE, FALSE))
    /\ \A p \in {1} : WF_vars(Return(p))

NextShutdown ==
    \/ NextSweep
    \/ Cancel
    \/ RunCleanupDone

\* the process is shut down at some moment, or never: the goroutine is
\* scheduled while it can take a step
SpecShutdown ==
    /\ InitSweep
    /\ [][NextShutdown]_vars
    /\ WF_vars(Elapse)
    /\ WF_vars(RunCleanupTick)
    /\ WF_vars(RunCleanupDone)
    /\ \A p \in {1} : WF_vars(Return(p))

(***************************************************************************)
(* The router and the rate limiter.  buildRouter makes one limiter (rl)    *)
(* and puts it before RedirectOrGate and UnlockURL; the limiter counts the *)
(* requests of a client IP in a window that its store opens at the first   *)
(* request and drops a rateLimitPeriod later.  The limiter's store has     *)
(* slot Limiter of procs; its record holds                                 *)
(*   keys    for each client IP with an open window: count, the requests   *)
(*           counted in it, and passed, history: how many of them went on  *)
(*           to each handler                                               *)
(* A request's record holds its route, its client IP and its answer.       *)
(***************************************************************************)
Limiter == 0 - 1

rateLimitRequests == 60
StatusTooManyRequests == 429

RedirectRoute == "GET /:slug"
UnlockRoute == "POST /api/v1/urls/:slug/unlock"
CreateRoute == "POST /api/v1/urls"
CheckRoute == "GET /api/v1/urls/check/:slug"
ExpireRoute == "POST /api/v1/urls/:slug/expire"

\* the routes of buildRouter that lead to the service, and those behind rl
Routes == { RedirectRoute, UnlockRoute, CreateRoute, CheckRoute, ExpireRoute }
LimitedRoutes == { UnlockRoute, RedirectRoute }

\* two clients; the second sends few requests in a window
ClientA == "198.51.100.7"
ClientB == "203.0.113.9"
ClientIPs == { ClientA, ClientB }

NewLimiterStore == [pc |-> "store", op |-> "rl", keys |-> <<>>]

NoRequest ==
    [pc |-> "idle", op |-> "none", route |-> "", ip |-> "", status |-> 0, body |-> ""]

\* the limit is reached one request late
Reached_Late(count) == count > rateLimitRequests + 1

\* limiter.Context.Reached: the count of the window exceeds the limit
Reached(count) == count > rateLimitRequests

\* the window of ip, or a fresh one
Window(keys, ip) ==
    IF ip \in DOMAIN keys THEN keys[ip]
    ELSE [count |-> 0, passed |-> [rt \in LimitedRoutes |-> 0]]

\* the requests of ip's window that went on to a handler
Passed(keys, ip) ==
    Window(keys, ip).passed[RedirectRoute] + Window(keys, ip).passed[UnlockRoute]

\* the router takes a request: behind rl the limiter counts it under the
\* client's IP and answers 429 once the limit is reached; otherwise, and on
\* the other routes, the request goes on to its handler
Serve(p, ip, route) ==
    LET g == procs[Limiter]
        w == Window(g.keys, ip)
        refused == route \in LimitedRoutes /\ Reached(w.count + 1)
        w1 == [w EXCEPT !.count = w.count + 1,
                        !.passed = IF refused THEN w.passed
                                   ELSE [w.passed EXCEPT ![route] = w.passed[route] + 1]]
        r == [NoRequest EXCEPT !.op = "request", !.route = route, !.ip = ip]
    IN  /\ NoneDone
        /\ procs[p].pc = "idle"
        /\ route \in LimitedRoutes =>
             w.count < (IF ip = ClientA THEN rateLimitRequests + 2 ELSE MaxCreates + 1)
        /\ procs' = [procs EXCEPT
             ![p] = IF refused
                    THEN [r EXCEPT !.pc = "done", !.status = StatusTooManyRequests,
                                   !.body = "Limit exceeded"]
                    ELSE [r EXCEPT !.pc = "handler"],
             ![Limiter] = IF route \in LimitedRoutes
                          THEN [g EXCEPT !.keys = Put(g.keys, ip, w1)] ELSE g]
        /\ UNCHANGED <<now, store, cache, creates, expiry>>

\* the statuses the handler of a route answers with
HandlerStatuses(route) ==
    CASE route = RedirectRoute -> { StatusMovedPermanently, StatusFound }
      [] route = UnlockRoute -> { StatusOK, StatusBadRequest, StatusUnauthorized,
                                  StatusNotFound, StatusInternalServerError }
      [] route = CreateRoute -> { StatusCreated, StatusBadRequest, StatusConflict,
                                  StatusInternalServerError }
      [] route = CheckRoute -> { StatusOK, StatusBadRequest, StatusInternalServerError }
      [] route = ExpireRoute -> { StatusOK, StatusBadRequest, StatusUnauthorized }

\* the handler runs and answers
Handle(p) ==
    LET r == procs[p]
    IN  /\ r.pc = "handler"
        /\ \E status \in HandlerStatuses(r.route) :
             procs' = [procs EXCEPT ![p] = [r EXCEPT !.pc = "done", !.status = status,
                                                     !.body = "handler"]]
        /\ UNCHANGED <<now, store, cache, creates, expiry>>

\* the answer is out
Answered(p) ==
    /\ procs[p].pc = "done"
    /\ procs' = [procs EXCEPT ![p] = NoRequest]
    /\ UNCHANGED <<now, store, cache, creates, expiry>>

\* rateLimitPeriod after a window's first request the store drops the window
PeriodEnds(ip) ==
    LET g == procs[Limiter]
    IN  /\ ip \in DOMAIN g.keys
        /\ procs' = [procs EXCEPT ![Limiter] = [g EXCEPT !.keys = Drop(g.keys, ip)]]
        /\ UNCHANGED <<now, store, cache, creates, expiry>>

InitLimit ==
    /\ now = 0
    /\ store = <<>>
    /\ cache = <<>>
    /\ procs = [p \in {Limiter, 1} |-> IF p = Limiter THEN NewLimiterStore ELSE NoRequest]
    /\ creates = 0
    /\ expiry = <<>>

NextLimit ==
    \/ \E p \in Procs \ {Limiter}, ip \in ClientIPs, route \in Routes : Serve(p, ip, route)
    \/ \E p \in Procs \ {Limiter} : Handle(p)
    \/ \E p \in Procs \ {Limiter} : Answered(p)
    \/ \E ip \in ClientIPs : PeriodEnds(ip)

SpecLimit == InitLimit /\ [][NextLimit]_vars

(***************************************************************************)
(* Start-up: main reads the configuration from the environment and exits   *)
(* when config.Load refuses it.  The record procs[Main] holds the process: *)
(*   pc    "load", then "loaded" and "listen", or "failed" and "exit"      *)
(*   env   the environment; os.Getenv gives "" for a variable that is      *)
(*         unset as for one that is set to the empty string                *)
(*   cfg   the Config that Load returned, if it returned one               *)
(*   err   the error that Load returned                                    *)
(*   addr  the address of the http.Server                                  *)
(*   code  the exit code                                                   *)
(***************************************************************************)
Main == 0 - 2

EnvNames ==
    { "MYSQL_DSN", "REDIS_ADDR", "REDIS_PASSWORD", "APP_PORT", "BASE_URL",
      "CORS_ALLOWED_ORIGIN", "FRONTEND_URL" }

\* a value for each variable, as the README gives them
EnvSample ==
    [ MYSQL_DSN |-> "user:pass@tcp(127.0.0.1:3306)/encurtador?parseTime=true",
      REDIS_ADDR |-> "127.0.0.1:6379",
      REDIS_PASSWORD |-> "hunter2",
      APP_PORT |-> "9090",
      BASE_URL |-> "https://encurtador.jhermesn.dev",
      CORS_ALLOWED_ORIGIN |-> "https://example.org",
      FRONTEND_URL |-> "https://example.org/app" ]

\* the environments: every variable unset or set to its sample
Environments == { [n \in EnvNames |-> IF n \in set THEN EnvSample[n] ELSE ""] :
                  set \in SUBSET EnvNames }

Getenv(env, name) == env[name]

ErrRequired(name) == name \o " is required"

\* config.Load
Load(env) ==
    LET cfg == [MySQLDSN |-> Getenv(env, "MYSQL_DSN"),
                RedisAddr |-> Getenv(env, "REDIS_ADDR"),
                RedisPassword |-> Getenv(env, "REDIS_PASSWORD"),
                AppPort |-> Getenv(env, "APP_PORT"),
                BaseURL |-> Getenv(env, "BASE_URL"),
                CORSAllowedOrigin |-> Getenv(env, "CORS_ALLOWED_ORIGIN"),
                FrontendURL |-> Getenv(env, "FRONTEND_URL")]
    IN  IF cfg.MySQLDSN = "" THEN [cfg |-> Nil, err |-> ErrRequired("MYSQL_DSN")]
        ELSE IF cfg.RedisAddr = "" THEN [cfg |-> Nil, err |-> ErrRequired("REDIS_ADDR")]
        ELSE IF cfg.BaseURL = "" THEN [cfg |-> Nil, err |-> ErrRequired("BASE_URL")]
        ELSE IF cfg.CORSAllowedOrigin = "" THEN
             [cfg |-> Nil, err |-> ErrRequired("CORS_ALLOWED_ORIGIN")]
        ELSE IF cfg.FrontendURL = "" THEN
             [cfg |-> Nil, err |-> ErrRequired("FRONTEND_URL")]
        ELSE [cfg |-> Some([cfg EXCEPT !.AppPort = IF @ = "" THEN "8080" ELSE @]),
              err |-> ErrNone]

MainStart(env) ==
    [pc |-> "load", op |-> "main", env |-> env, cfg |-> Nil, err |-> ErrNone,
     addr |-> "", code |-> 0]

\* cfg, err := config.Load()
MainLoad ==
    LET g == procs[Main]
        got == Load(g.env)
    IN  /\ g.pc = "load"
        /\ procs' = [procs EXCEPT ![Main] =
             [g EXCEPT !.pc = IF got.err # ErrNone THEN "failed" ELSE "loaded",
                       !.cfg = got.cfg, !.err = got.err]]
        /\ UNCHANGED <<now, store, cache, creates, expiry>>

\* if err != nil: the error is logged and the process exits with 1
MainExit ==
    LET g == procs[Main]
    IN  /\ g.pc = "failed"
        /\ procs' = [procs EXCEPT ![Main] = [g EXCEPT !.pc = "exit", !.code = 1]]
        /\ UNCHANGED <<now, store, cache, creates, expiry>>

\* the server is set up on the configured port
MainListen ==
    LET g == procs[Main]
    IN  /\ g.pc = "loaded"
        /\ procs' = [procs EXCEPT ![Main] =
             [g EXCEPT !.pc = "listen", !.addr = ":" \o g.cfg[1].AppPort]]
        /\ UNCHANGED <<now, store, cache, creates, expiry>>

InitConfig ==
    /\ now = 0
    /\ store = <<>>
    /\ cache = <<>>
    /\ \E env \in Environments : procs = [p \in {Main} |-> MainStart(env)]
    /\ creates = 0
    /\ expiry = <<>>

NextConfig ==
    \/ MainLoad
    \/ MainExit
    \/ MainListen

SpecConfig == InitConfig /\ [][NextConfig]_vars

(***************************************************************************)
(* A link that is given a password: the table holds an open link under     *)
(* SlugA, which its owner expires and, once the sweep has freed the slug,  *)
(* creates again for the same target, with a password this time.           *)
(***************************************************************************)
OpenURL ==
    URL(TargetB, Nil, Sha256Hex(CHOOSE tok \in Tokens : TRUE), ValidTTLs["24h"])

GateInputs == { CreateReq(TargetB, SlugA, "1h", "secret") }

InitGate ==
    /\ now = 0
    /\ store = Put(<<>>, SlugA, OpenURL)
    /\ \/ cache = <<>>
       \/ cache = CacheSet(<<>>, SlugA, ToCached(OpenURL), ValidTTLs["24h"], 0)
    /\ procs = [p \in {1, 2} |-> Idle]
    /\ creates = 0
    /\ expiry = <<>>

NextGate ==
    \/ \E p \in Procs, req \in GateInputs : StartCreate(p, req)
    \/ \E p \in Procs, slug \in LookupSlugs : Lookup(p, slug)
    \/ \E p \in Procs, slug \in LookupSlugs : UnlockUnbound(p, slug)
    \/ \E p \in Procs, slug \in LookupSlugs, tok \in ExpireTokens : StartExpire(p, slug, tok)
    \/ \E p \in Procs : RequestedExists(p)
    \/ \E p \in Procs : Probe(p)
    \/ \E p \in Procs : Prepare(p)
    \/ \E p \in Procs : Insert(p)
    \/ \E p \in Procs : Warm(p)
    \/ \E p \in Procs : Find(p)
    \/ \E p \in Procs : Until(p)
    \/ \E p \in Procs : Fill(p)
    \/ \E p \in Procs : Expire(p)
    \/ \E p \in Procs : Invalidate(p)
    \/ \E p \in Procs : Return(p)
    \/ Tick
    \/ Cleanup

SpecGate == InitGate /\ [][NextGate]_vars

(***************************************************************************)
(* A slug whose record has expired: the workload of Spec on its tables and *)
(* on one where the row under SlugA has expired and is not swept yet, with *)
(* CheckSlug asked about the slug as well.                                 *)
(***************************************************************************)
InitTaken ==
    /\ now = 0
    /\ \/ store = PrefilledStale /\ cache = <<>>
       \/ /\ store = Put(<<>>, SlugA, EarlierURL)
          /\ cache = CacheSet(<<>>, SlugA, ToCached(EarlierURL), ValidTTLs["24h"], 0)
    /\ procs = [p \in {1, 2} |-> Idle]
    /\ creates = 0
    /\ expiry = <<>>

NextTaken ==
    \/ \E p \in Procs, slug \in LookupSlugs : StartCheck(p, slug)
    \/ Next

SpecTaken == InitTaken /\ [][NextTaken]_vars

(***************************************************************************)
(* Properties of Create: expiration, slug suggestion, slug format.         *)
(***************************************************************************)
\* the durations the TTL values stand for, in hours
TTLDurations ==
    ("1h" :> 1) @@ ("24h" :> 24) @@ ("168h" :> 7 * 24)
    @@ ("720h" :> 30 * 24) @@ ("8760h" :> 365 * 24)

\* C1: for each of the five TTL values, the step of Create that inserts the
\* record stores it with expiration = the time Create read + the duration the
\* TTL stands for, and the step that returns hands back that same expiration.
C1_ExpirationIsCreationPlusTTL ==
    [][\A p \in Procs :
         LET r == procs[p]
             q == procs'[p]
         IN  /\ (r.pc = "insert" /\ q.pc = "warm") =>
                  /\ r.req.TTL \in DOMAIN TTLDurations
                  /\ r.cand \in DOMAIN store'
                  /\ store'[r.cand].ExpiresAt = r.clock + TTLDurations[r.req.TTL]
             /\ (r.pc = "warm" /\ q.pc = "done") =>
                  /\ q.err = ErrNone
                  /\ q.out # Nil
                  /\ q.out[1].Slug = r.cand
                  /\ q.out[1].ExpiresAt = r.clock + TTLDurations[r.req.TTL]]_vars

\* a Create with the longest TTL has returned: created at hour clock, the
\* record and the result expire 365 days later
C1_Witness ==
    \E p \in Procs :
        LET r == procs[p]
        IN  /\ r.pc = "done" /\ r.op = "CreateURL" /\ r.err = ErrNone
            /\ r.req.TTL = "8760h"
            /\ r.out[1].ExpiresAt = r.clock + 8760
            /\ r.out[1].Slug \in DOMAIN store
            /\ store[r.out[1].Slug].ExpiresAt = r.out[1].ExpiresAt

\* the suffixes -2 .. -10 as text
Suffixes ==
    [n \in 2..10 |->
        CASE n = 2 -> <<"-","2">> [] n = 3 -> <<"-","3">> [] n = 4 -> <<"-","4">>
          [] n = 5 -> <<"-","5">> [] n = 6 -> <<"-","6">> [] n = 7 -> <<"-","7">>
          [] n = 8 -> <<"-","8">> [] n = 9 -> <<"-","9">> [] n = 10 -> <<"-","1","0">>]

Smallest(S) == CHOOSE n \in S : \A m \in S : n <= m

\* C2: a Create whose requested slug (well formed, with a valid TTL) was in the
\* table when Create looked, and which no other writer disturbed, is assigned
\* slug-N for the smallest N in 2..10 with slug-N not in the table; when the
\* slug and all of slug-2 .. slug-10 are there it returns ErrSlugTaken, has no
\* result and has written nothing.
C2_TakenSlugGetsFirstFreeSuffix ==
    \A p \in Procs :
        LET r == procs[p]
            free == { n \in 2..10 : (r.slug \o Suffixes[n]) \notin r.dom0 }
        IN  (r.pc = "done" /\ r.op = "CreateURL" /\ r.slug \in r.dom0 /\ r.stable) =>
                IF free = {}
                THEN r.err = ErrSlugTaken /\ r.out = Nil /\ ~r.wrote
                ELSE /\ r.err = ErrNone
                     /\ r.wrote
                     /\ r.out # Nil
                     /\ r.out[1].Slug = r.slug \o Suffixes[Smallest(free)]

\* the slug and slug-2 .. slug-9 were taken: Create has assigned slug-10
C2_Witness ==
    \E p \in Procs :
        LET r == procs[p]
        IN  /\ r.pc = "done" /\ r.op = "CreateURL" /\ r.stable
            /\ r.slug \in r.dom0
            /\ \A n \in 2..9 : (r.slug \o Suffixes[n]) \in r.dom0
            /\ r.err = ErrNone
            /\ r.out[1].Slug = r.slug \o Suffixes[10]

\* 5 to 50 characters, each a letter, a digit or the hyphen
WellFormed(s) ==
    /\ Len(s) >= 5
    /\ Len(s) <= 50
    /\ \A k \in 1..Len(s) : s[k] \in LowerChars \cup UpperChars \cup DigitSet \cup {"-"}

\* slugs around the limits of length and of the character class
SampleSlugs ==
    { Rep(c, n) : c \in {"a", "Q", "7", "-", "_", " ", "\n"},
                  n \in {0, 1, 4, 5, 6, 49, 50, 51, 52} }
    \cup { Rep("a", n) \o <<c>> : c \in {"_", "\n", ".", "/"}, n \in {4, 5, 49, 50} }
    \cup { <<c>> \o Rep("a", n) : c \in {"_", "\n", ".", "/"}, n \in {4, 5, 49, 50} }
    \cup CheckInputs \cup GenSlugs \cup { Candidate(Slug50, 2) }

ValidatorExact == \A s \in SampleSlugs : slugPattern(s) <=> WellFormed(s)

Completes(p) ==
    /\ procs[p].pc \in {"idle", "find", "until", "fill"}
    /\ procs'[p].pc = "done"
    /\ procs'[p].op \in {"RedirectOrGate", "UnlockURL"}
    /\ procs'[p].err # ErrBinding

\* ... and it was answered from the cache
Hits(p) == Completes(p) /\ procs[p].pc = "idle"

\* no other request is in flight
Alone(p) == \A o \in Procs \ {p} : procs[o].pc = "idle"

\* the slug's record is in the table and has not expired
Live(slug) == slug \in DOMAIN store /\ store[slug].ExpiresAt > now

\* an ExpireEarly has expired the slug's present record: it has updated the
\* row, or it has also returned
ExpiredEarly(slug) == slug \in DOMAIN expiry
ExpireReturned(slug) == slug \in DOMAIN expiry /\ expiry[slug] = "returned"

ReportsNotFound(q) == q.out = Nil /\ q.err = ErrNone /\ q.target = ""

\* C4: a Resolve that returns while the slug's record is in the table with its
\* expiration passed returns nil, whatever the cache holds.  Stated for records
\* that ran out on their own (no ExpireEarly has touched them).
C4_ExpiredRecordResolvesNil ==
    [][\A p \in Procs :
         ( /\ Completes(p)
           /\ procs'[p].op = "RedirectOrGate"
           /\ procs'[p].slug \in DOMAIN store
           /\ store[procs'[p].slug].ExpiresAt <= now
           /\ ~ExpiredEarly(procs'[p].slug) )
         => procs'[p].out = Nil]_vars

\* C5: an ExpireEarly with the record's token succeeds when the record is live
\* and fails with ErrInvalidManageToken once an ExpireEarly has succeeded on the
\* record; a success is always the first on its record, leaves the record
\* expired and is reported without error, so of concurrent calls at most one
\* succeeds.
C5_ExpireEarlySucceedsOnce ==
    [][\A p \in Procs :
         LET r == procs[p]
             q == procs'[p]
             correct == /\ r.slug \in DOMAIN store
                        /\ store[r.slug].ManageTokenHash = Sha256Hex(r.token)
             succeeded == q.pc = "invalidate"
         IN  /\ (r.pc = "expire" /\ q.pc # "expire") =>
                  /\ (correct /\ Live(r.slug)) => succeeded
                  /\ (correct /\ ExpiredEarly(r.slug)) =>
                        (q.pc = "done" /\ q.err = ErrInvalidManageToken)
                  /\ succeeded =>
                        /\ correct
                        /\ ~ExpiredEarly(r.slug)
                        /\ store'[r.slug].ExpiresAt <= now
                        /\ expiry'[r.slug] = "updated"
             /\ (r.pc = "invalidate" /\ q.pc = "done") =>
                  (q.err = ErrNone /\ q.status = 200)]_vars

\* two ExpireEarly calls with the record's token ran together: one has
\* succeeded and the other has been refused
C5_Witness ==
    \E p, o \in Procs :
        /\ p # o
        /\ procs[p].pc = "invalidate" /\ procs[p].op = "ExpireURL"
        /\ procs[o].pc = "done" /\ procs[o].op = "ExpireURL"
        /\ procs[o].slug = procs[p].slug /\ procs[o].token = procs[p].token
        /\ procs[o].err = ErrInvalidManageToken
        /\ store[procs[p].slug].ManageTokenHash = Sha256Hex(procs[o].token)

\* C6: once an ExpireEarly on the slug has returned success, every Resolve and
\* VerifyPassword of the slug that returns afterwards reports not found.
C6_NotFoundAfterExpireEarly ==
    [][\A p \in Procs :
         (Completes(p) /\ ExpireReturned(procs'[p].slug))
         => ReportsNotFound(procs'[p])]_vars

\* C7: a VerifyPassword on a slug whose record is live returns the record's
\* target when the record has no password or the password matches its hash,
\* and ErrInvalidPassword when the record has a password and the password does
\* not match.  Stated for calls answered at once, with no other request in
\* flight.
C7_VerifyPasswordOnLiveLink ==
    [][\A p \in Procs :
         LET r == procs[p]
             q == procs'[p]
         IN  (Hits(p) /\ Alone(p) /\ q.op = "UnlockURL" /\ Live(q.slug)) =>
                LET u == store[q.slug]
                IN  IF u.PasswordHash = Nil \/ BcryptCompare(u.PasswordHash[1], q.password)
                    THEN q.err = ErrNone /\ q.target = u.TargetURL
                    ELSE q.err = ErrInvalidPassword]_vars

\* C8: POST /urls/:slug/unlock with an empty password is answered 200 with the
\* target when the slug's record is live and unprotected, and 404 when the slug
\* is missing or expired.
C8_EmptyPasswordUnlock ==
    \A p \in Procs :
        LET r == procs[p]
        IN  (r.pc = "done" /\ r.op = "UnlockURL" /\ r.http /\ r.password = "") =>
               IF Live(r.slug)
               THEN store[r.slug].PasswordHash = Nil =>
                        (r.status = 200 /\ r.body = store[r.slug].TargetURL)
               ELSE r.status = 404

\* what a read of the table alone gives for the slug
StoreRead(slug) == IF Live(slug) THEN Some(ToCached(store[slug])) ELSE Nil

\* C9: Create and ExpireEarly return without error whatever their cache call
\* did, no lookup returns a store error, and a lookup answered from the cache
\* returns what a read of the table at that moment gives.  Stated for lookups
\* that run with no other request in flight.
C9_CacheNeverChangesAnswers ==
    [][\A p \in Procs :
         LET r == procs[p]
             q == procs'[p]
         IN  /\ (r.pc \in {"warm", "invalidate"} /\ q.pc = "done") => q.err = ErrNone
             /\ Completes(p) => q.err \in {ErrNone, ErrInvalidPassword}
             /\ (Hits(p) /\ Alone(p)) => q.out = StoreRead(q.slug)]_vars


\* the projection of a record that lookups hand out
Projection(u) ==
    [TargetURL |-> u.TargetURL,
     Protected |-> u.PasswordHash # Nil,
     PasswordHash |-> IF u.PasswordHash = Nil THEN <<>> ELSE u.PasswordHash[1]]

\* C10: a lookup that the cache answers returns the entry's content and makes
\* no call to the store; on a miss it reads the store once; for a live record
\* it takes the time remaining to the record's expiration, writes (when the
\* cache accepts it) an entry with that time to live holding the record's
\* projection, and returns the projection; for a missing or expired record it
\* returns nil, without error for Resolve, and leaves the cache as it was.
C10_CacheAside ==
    [][\A p \in Procs :
         LET r == procs[p]
             q == procs'[p]
         IN  /\ Hits(p) =>
                  /\ q.slug \in DOMAIN cache
                  /\ q.out # Nil
                  /\ MarshalCached(q.out[1]) = cache[q.slug].data
                  /\ q.calls = 0
                  /\ cache' = cache /\ store' = store
             /\ (r.pc = "find" /\ q.pc = "until") =>
                  /\ Live(r.slug)
                  /\ q.url = Some(store[r.slug])
                  /\ q.calls = 1
                  /\ cache' = cache
             /\ (r.pc = "until" /\ q.pc = "fill") =>
                  /\ q.ttl = r.url[1].ExpiresAt - now
                  /\ q.ttl > 0
                  /\ cache' = cache
             /\ (r.pc = "fill" /\ Completes(p)) =>
                  /\ q.out = Some(Projection(r.url[1]))
                  /\ q.calls = 1
                  /\ \/ cache' = cache
                     \/ /\ DOMAIN cache' = DOMAIN cache \cup {r.slug}
                        /\ \A s \in DOMAIN cache \ {r.slug} : cache'[s] = cache[s]
                        /\ cache'[r.slug].deadline - now = r.ttl
                        /\ UnmarshalCached(cache'[r.slug].data) = Projection(r.url[1])
             /\ (r.pc = "find" /\ Completes(p)) =>
                  /\ ~Live(r.slug)
                  /\ q.out = Nil
                  /\ q.op = "RedirectOrGate" => q.err = ErrNone
                  /\ cache' = cache
             /\ (r.pc = "until" /\ Completes(p)) =>
                  /\ r.url[1].ExpiresAt <= now
                  /\ q.out = Nil
                  /\ q.op = "RedirectOrGate" => q.err = ErrNone
                  /\ cache' = cache]_vars

\* a Resolve has missed the cache, read the live record and filled the cache:
\* the entry holds the result and runs out when the record does
C10_Witness ==
    \E p \in Procs :
        LET r == procs[p]
        IN  /\ r.pc = "done" /\ r.op = "RedirectOrGate"
            /\ r.calls = 1
            /\ r.out # Nil
            /\ Live(r.slug)
            /\ r.out[1] = Projection(store[r.slug])
            /\ r.slug \in DOMAIN cache
            /\ cache[r.slug].deadline = store[r.slug].ExpiresAt
            /\ UnmarshalCached(cache[r.slug].data) = r.out[1]


(***************************************************************************)
(* resolveSlug on a requested slug and suggestAlternative, as functions of *)
(* the table st they query.                                                *)
(***************************************************************************)
RECURSIVE suggestAlternativeFrom(_, _, _)
suggestAlternativeFrom(st, slug, i) ==
    IF ~(i <= maxCollisionTries) THEN <<>>
    ELSE IF ~SlugExists(st, Candidate(slug, i)) THEN Candidate(slug, i)
    ELSE suggestAlternativeFrom(st, slug, i + 1)

suggestAlternative(st, slug) == suggestAlternativeFrom(st, slug, 2)

resolveSlug(st, requested) ==
    IF ~slugPattern(requested) THEN [slug |-> <<>>, err |-> ErrInvalidSlugFormat]
    ELSE IF ~SlugExists(st, requested) THEN [slug |-> requested, err |-> ErrNone]
    ELSE LET candidate == suggestAlternative(st, requested)
         IN  IF candidate # <<>> THEN [slug |-> candidate, err |-> ErrNone]
             ELSE [slug |-> <<>>, err |-> ErrSlugTaken]

\* a table with the slugs of D
TableOf(D) == [s \in D |-> TRUE]

\* request r has looked at the requested slug in the table and no writer has
\* changed the table's slugs under it since
Looked(r) == r.pc = "done" /\ r.calls > 0 /\ r.stable /\ r.slug # <<>>

\* C11: on the same table, for a well-formed slug, a Create that succeeds is
\* assigned what resolveSlug gives, and CheckSlug reports the slug available
\* exactly when resolveSlug gives the slug itself, suggests what resolveSlug
\* assigns when the slug is taken, and suggests nothing exactly when
\* resolveSlug gives ErrSlugTaken.
C11_CheckSlugAgreesWithCreate ==
    \A p \in Procs :
        LET r == procs[p]
            would == resolveSlug(TableOf(r.dom0), r.slug)
        IN  /\ (Looked(r) /\ r.op = "CreateURL") =>
                 /\ r.err = would.err
                 /\ would.err = ErrNone => r.out[1].Slug = would.slug
            /\ (Looked(r) /\ r.op = "CheckSlug") =>
                 /\ r.err = ErrNone
                 /\ r.out[1].available <=> (would.err = ErrNone /\ would.slug = r.slug)
                 /\ ~r.out[1].available => r.out[1].suggestion = would.slug
                 /\ (~r.out[1].available /\ r.out[1].suggestion = <<>>)
                      <=> would.err = ErrSlugTaken

\* CheckSlug has suggested slug-3 on a table where Create would assign slug-3
C11_Witness ==
    \E p \in Procs :
        LET r == procs[p]
        IN  /\ Looked(r) /\ r.op = "CheckSlug"
            /\ ~r.out[1].available
            /\ r.out[1].suggestion = r.slug \o Suffixes[3]
            /\ resolveSlug(store, r.slug) = [slug |-> r.out[1].suggestion, err |-> ErrNone]


\* C12: every slug in the table has 5 to 50 characters, each a letter, a digit
\* or the hyphen.
C12_StoredSlugsWellFormed == \A s \in DOMAIN store : WellFormed(s)


(***************************************************************************)
(* C13.  Under any interleaving of concurrent Create requests the table    *)
(* holds one row per slug (it is a function of the slug, as the unique key *)
(* makes it), no step changes the row of a slug that is present, a row     *)
(* leaves the table only once it has expired (the sweep), a Create's       *)
(* INSERT succeeds only for a slug that is absent and adds exactly its own *)
(* row, and is refused with the table untouched otherwise; so two Creates  *)
(* that both succeeded hold the same slug only if the earlier row had      *)
(* expired and was swept in between.                                       *)
(***************************************************************************)
\* request p's INSERT has succeeded and its answer is not out yet
Inserted(p) == procs[p].pc = "warm"

C13_SlugWrittenOnce ==
    [][ /\ \A s \in DOMAIN store \cap DOMAIN store' : store'[s] = store[s]
        /\ \A s \in DOMAIN store \ DOMAIN store' : store[s].ExpiresAt < now
        /\ \A s \in DOMAIN store' \ DOMAIN store :
             \E p \in Procs : procs[p].pc = "insert" /\ Inserted(p)' /\ procs[p].cand = s
        /\ \A p \in Procs :
             LET r == procs[p]
             IN  /\ (r.pc = "insert" /\ Inserted(p)') =>
                       /\ r.cand \notin DOMAIN store
                       /\ DOMAIN store' = DOMAIN store \cup {r.cand}
                       /\ store'[r.cand] = r.url[1]
                 /\ (r.pc = "insert" /\ procs'[p].pc \notin {"insert", "warm"}) =>
                       /\ r.cand \in DOMAIN store
                       /\ store' = store
                       /\ procs'[p].pc = "done"
                       /\ procs'[p].err = ErrStore
                       /\ procs'[p].out = Nil
        /\ \A p, q \in Procs :
             (p # q /\ Inserted(p) /\ Inserted(q) /\ procs[p].cand = procs[q].cand) =>
                 \/ procs[p].url[1].ExpiresAt < now
                 \/ procs[q].url[1].ExpiresAt < now
      ]_vars

\* two Creates found SlugA taken and SlugA-2 free; one inserted SlugA-2, and
\* the other's INSERT of SlugA-2 was refused
C13_Witness ==
    \E p \in Procs :
        LET r == procs[p]
        IN  /\ r.op = "CreateURL" /\ r.pc = "done" /\ r.err = ErrStore
            /\ r.slug = SlugA /\ SlugA \in r.dom0
            /\ Candidate(SlugA, 2) \in DOMAIN store
            /\ Candidate(SlugA, 2) \notin r.dom0
            /\ ~r.wrote


(***************************************************************************)
(* C14.  As stated: of two concurrent Creates that asked for the same      *)
(* desired slug while it was free, the one whose INSERT comes last has its *)
(* record stored under the slug.                                           *)
(***************************************************************************)
\* request p asked for its slug, found it free on its first look at the table,
\* and is about to INSERT its record under it
WritesDesired(p) ==
    LET r == procs[p]
    IN  r.op = "CreateURL" /\ r.pc = "insert" /\ r.cand = r.slug /\ r.slug \notin r.dom0

\* request q asked for the same slug as p, found it free, and has inserted
WroteBefore(q, p) ==
    LET r == procs[q]
    IN  /\ q # p /\ r.op = "CreateURL" /\ r.wrote
        /\ r.slug = procs[p].slug /\ r.slug \notin r.dom0

C14_LastWriteWins ==
    [][ \A p \in Procs :
          (/\ WritesDesired(p)
           /\ procs'[p].pc # "insert"
           /\ \E q \in Procs : WroteBefore(q, p)) =>
              store'[procs[p].cand] = procs[p].url[1]
      ]_vars

(***************************************************************************)
(* C14 as amended: the first write wins.  The INSERT of a Create that      *)
(* found its desired slug free stores the request's record when the slug   *)
(* is still absent; when another request's record is there by then, the    *)
(* INSERT is refused, the table stays as it is (the earlier request's      *)
(* record stands), and the Create fails with the store's error, answered   *)
(* 500 without a result.                                                   *)
(***************************************************************************)
C14_FirstWriteWins ==
    [][ \A p \in Procs :
          LET r == procs[p]
          IN  (WritesDesired(p) /\ procs'[p].pc # "insert") =>
                IF r.cand \in DOMAIN store
                THEN /\ store' = store
                     /\ procs'[p].pc = "done"
                     /\ procs'[p].err = ErrStore
                     /\ procs'[p].status = StatusInternalServerError
                     /\ procs'[p].out = Nil
                     /\ ~procs'[p].wrote
                     /\ \A q \in Procs :
                          (/\ WroteBefore(q, p) /\ Inserted(q)
                           /\ ~(procs[q].url[1].ExpiresAt < now)) =>
                              store'[r.cand] = procs[q].url[1]
                ELSE /\ store'[r.cand] = r.url[1]
                     /\ Inserted(p)'
                     /\ procs'[p].wrote
      ]_vars

\* both asked for SlugA on the empty table; the request for TargetA inserted
\* first, and the one for TargetB was refused: TargetA's record stands
C14_Witness ==
    \E p \in Procs :
        LET r == procs[p]
        IN  /\ r.op = "CreateURL" /\ r.pc = "done" /\ r.err = ErrStore
            /\ r.status = StatusInternalServerError
            /\ r.slug = SlugA /\ SlugA \notin r.dom0
            /\ r.req.TargetURL = TargetB
            /\ SlugA \in DOMAIN store
            /\ store[SlugA].TargetURL = TargetA
            /\ \E q \in Procs : WroteBefore(q, p)


(***************************************************************************)
(* C15.  Create stores the hash of the manage token, which is not the      *)
(* token, and returns the token itself; the stored hash of a record never  *)
(* changes; and an ExpireEarly that brings the token Create returned for   *)
(* the record (the token with the stored hash) while the record is live    *)
(* succeeds: the UPDATE sets the record's expiration to the current time,  *)
(* and the call returns without error.                                     *)
(***************************************************************************)
C15_ManageTokenExpiresRecord ==
    [][ /\ \A s \in DOMAIN store \cap DOMAIN store' :
             store'[s].ManageTokenHash = store[s].ManageTokenHash
        /\ \A p \in Procs :
             LET r == procs[p]
                 q == procs'[p]
             IN  /\ (r.pc = "insert" /\ q.pc = "warm") =>
                       /\ store'[r.cand].ManageTokenHash = Sha256Hex(r.token)
                       /\ store'[r.cand].ManageTokenHash # r.token
                       /\ q.token = r.token
                 /\ (r.pc = "warm" /\ q.pc = "done") =>
                       /\ q.out # Nil
                       /\ q.out[1].ManageToken = r.token
                       /\ q.out[1].Slug = r.cand
                       /\ q.status = StatusCreated
                       /\ r.cand \in DOMAIN store =>
                            store[r.cand].ManageTokenHash = Sha256Hex(q.out[1].ManageToken)
                 /\ (/\ r.op = "ExpireURL" /\ r.pc = "expire" /\ q.pc # "expire"
                     /\ Live(r.slug)
                     /\ store[r.slug].ManageTokenHash = Sha256Hex(r.token)) =>
                       /\ q.pc = "invalidate"
                       /\ store'[r.slug].ExpiresAt = now
                       /\ store'[r.slug].ManageTokenHash = store[r.slug].ManageTokenHash
                 /\ (r.op = "ExpireURL" /\ r.pc = "invalidate" /\ q.pc # "invalidate") =>
                       (q.pc = "done" /\ q.err = ErrNone /\ q.status = StatusOK)
      ]_vars

\* the link this run's Create made (TargetA) has been expired early with the
\* token Create returned: the call has succeeded and the record's expiration
\* is the current time
C15_Witness ==
    \E p \in Procs :
        LET r == procs[p]
        IN  /\ r.op = "ExpireURL" /\ r.pc = "done" /\ r.err = ErrNone
            /\ r.slug \in DOMAIN store
            /\ store[r.slug].TargetURL = TargetA
            /\ store[r.slug].ManageTokenHash = Sha256Hex(r.token)
            /\ store[r.slug].ManageTokenHash # r.token
            /\ store[r.slug].ExpiresAt = now
            /\ creates = 1


(***************************************************************************)
(* C16.  An ExpireEarly whose token's hash is not the record's, or whose   *)
(* slug has no record, or whose record has already expired, returns        *)
(* ErrInvalidManageToken (answered 401), and its step leaves the table,    *)
(* with the record's expiration, and the cache, with the slug's entry, as  *)
(* they were.                                                              *)
(***************************************************************************)
\* the token's hash is the hash the slug's record holds
TokenMatches(slug, tok) ==
    slug \in DOMAIN store /\ store[slug].ManageTokenHash = Sha256Hex(tok)

C16_RefusedExpireChangesNothing ==
    [][ \A p \in Procs :
          LET r == procs[p]
              q == procs'[p]
          IN  /\ (/\ r.op = "ExpireURL" /\ r.pc = "expire" /\ q.pc # "expire"
                  /\ \/ ~TokenMatches(r.slug, r.token)
                     \/ r.slug \notin DOMAIN store
                     \/ ~Live(r.slug)) =>
                    /\ q.pc = "done"
                    /\ q.err = ErrInvalidManageToken
                    /\ q.status = StatusUnauthorized
                    /\ ~q.wrote
                    /\ store' = store
                    /\ cache' = cache
              /\ (/\ r.op = "ExpireURL" /\ q.pc = "done" /\ r.pc # "done"
                  /\ q.err = ErrInvalidManageToken) =>
                    (store' = store /\ cache' = cache)
      ]_vars

\* an ExpireEarly with a wrong token on a live, cached record has been refused
C16_Witness ==
    \E p \in Procs :
        LET r == procs[p]
        IN  /\ r.op = "ExpireURL" /\ r.pc = "done"
            /\ r.err = ErrInvalidManageToken /\ r.status = StatusUnauthorized
            /\ r.token = WrongToken
            /\ Live(r.slug)
            /\ ~TokenMatches(r.slug, r.token)
            /\ r.slug \in DOMAIN cache
            /\ ~ExpiredEarly(r.slug)


(***************************************************************************)
(* C17.  A Create that fails (its TTL is not in the whitelist, its slug is *)
(* malformed, the slug and all its probed variants are taken, or the       *)
(* INSERT is refused) has written neither the table nor the cache: none of *)
(* its steps up to and including the failing one changes either.  The     *)
(* only steps of a Create that write are the successful INSERT, which      *)
(* writes the table alone, and the cache.Set that follows it, which writes *)
(* the cache alone; a Create past its INSERT does not fail.                *)
(***************************************************************************)
\* the step is one of Create request p (its position changes)
CreateSteps(p) ==
    /\ procs'[p].pc # procs[p].pc
    /\ procs[p].op = "CreateURL" \/ procs'[p].op = "CreateURL"

CreateFailures == { ErrInvalidTTL, ErrInvalidSlugFormat, ErrSlugTaken, ErrStore }

C17_FailedCreateWritesNothing ==
    [][ \A p \in Procs :
          LET r == procs[p]
              q == procs'[p]
          IN  CreateSteps(p) =>
                /\ store' # store => (r.pc = "insert" /\ q.pc = "warm" /\ cache' = cache)
                /\ cache' # cache => (r.pc = "warm" /\ r.wrote /\ store' = store)
                /\ (q.pc = "done" /\ q.err # ErrNone) =>
                     /\ store' = store
                     /\ cache' = cache
                     /\ ~q.wrote
                     /\ q.out = Nil
                     /\ q.err \in CreateFailures
                     /\ q.status # StatusCreated
                /\ r.wrote => (q.pc = "done" => q.err = ErrNone /\ q.status = StatusCreated)
                /\ (q.pc = "warm") => (r.pc = "insert" /\ q.wrote /\ r.cand \in DOMAIN store')
      ]_vars

\* a Create for SlugA has ended in a conflict after probing SlugA-2 .. SlugA-10:
\* the table is the one it found and the cache is empty
C17_Witness ==
    \E p \in Procs :
        LET r == procs[p]
        IN  /\ r.op = "CreateURL" /\ r.pc = "done" /\ r.err = ErrSlugTaken
            /\ r.status = StatusConflict
            /\ r.calls = maxCollisionTries
            /\ ~r.wrote
            /\ store = Prefilled(1..10)
            /\ cache = <<>>


(***************************************************************************)
(* C18.  A row leaves the table only in a step in which the goroutine      *)
(* takes a tick, and then every row whose expiration has passed leaves     *)
(* with it and no other row does: a live record is never deleted.  The     *)
(* tick's step leaves the goroutine in its loop whether DeleteExpired      *)
(* failed or not (a failure is logged); the loop ends only once appCtx is  *)
(* canceled; and while it runs every hour brings a tick, which the         *)
(* goroutine can take: the DELETE is attempted again.                      *)
(***************************************************************************)
\* the rows whose expiration has passed
Expired == { s \in DOMAIN store : store[s].ExpiresAt < now }

\* the goroutine takes a tick in this step
TakesTick == procs[Sweeper].ticks = 1 /\ procs'[Sweeper].ticks = 0

C18_SweepDeletesExpiredOnly ==
    [][ LET g    == procs[Sweeper]
            g2   == procs'[Sweeper]
            gone == DOMAIN store \ DOMAIN store'
        IN  /\ gone # {} =>
                 /\ TakesTick
                 /\ g.ctx = "live"
                 /\ gone = Expired
                 /\ \A s \in gone : ~Live(s)
                 /\ \A s \in DOMAIN store' : s \in DOMAIN store /\ store'[s] = store[s]
            /\ TakesTick =>
                 /\ g.pc = "select" /\ g2.pc = "select"
                 /\ gone = {} \/ gone = Expired
                 /\ g2.err = ErrNone => (g.ctx = "live" /\ gone = Expired)
                 /\ g2.err # ErrNone => g2.logged
            /\ (g.pc = "select" /\ g2.pc # "select") => g.ctx = "canceled"
            /\ (g.pc = "select" /\ now' # now) => g2.ticks = 1
            /\ (g.pc = "select" /\ g.ticks = 1) => ENABLED RunCleanupTick
      ]_vars

\* a DeleteExpired has failed and was logged, the loop has gone on, and the
\* DELETE of a later tick has succeeded: the rows that were expired by then
\* are gone and the live link under SlugA is there
C18_Witness ==
    LET g == procs[Sweeper]
    IN  /\ g.pc = "select" /\ g.ctx = "live"
        /\ g.logged /\ g.err = ErrNone
        /\ now = 2
        /\ g.swept = {Candidate(SlugA, 2), Candidate(SlugA, 3)}
        /\ SlugA \in DOMAIN store /\ Live(SlugA)
        /\ Expired = {}

C20_ExpiredEventuallyDeleted ==
    \A s \in DOMAIN SweepRows :
        (s \in DOMAIN store /\ store[s].ExpiresAt < now) ~> (s \notin DOMAIN store)

\* after a failed DeleteExpired, the goroutine has deleted the link whose TTL
\* ran out and the link under SlugA that an ExpireEarly had expired
C20_Witness ==
    LET g == procs[Sweeper]
    IN  /\ g.logged
        /\ {SlugA, Candidate(SlugA, 2)} \subseteq g.swept
        /\ ExpireReturned(SlugA)
        /\ SlugA \notin DOMAIN store
        /\ Expired = {}


(***************************************************************************)
(* C21.  The redirect and unlock requests of one client IP share one       *)
(* budget: of the requests of a window at most rateLimitRequests, counted  *)
(* over both routes, go on to the handlers; a request is refused with 429  *)
(* exactly when the window's budget is used up; a request to create,       *)
(* check or expire always goes on to its handler and leaves the limiter    *)
(* as it is; and a request changes no other client's window.               *)
(***************************************************************************)
C21_SharedBudgetPerIP ==
    [][ LET L  == procs[Limiter].keys
            L2 == procs'[Limiter].keys
        IN  /\ \A ip \in ClientIPs : Passed(L, ip) <= rateLimitRequests
            /\ \A p \in Procs \ {Limiter} :
                 LET r == procs[p]
                     q == procs'[p]
                 IN  (r.pc = "idle" /\ q.pc # "idle") =>
                       /\ q.route \notin LimitedRoutes => (q.pc = "handler" /\ L2 = L)
                       /\ q.route \in LimitedRoutes =>
                            /\ \A other \in ClientIPs \ {q.ip} :
                                 /\ other \in DOMAIN L <=> other \in DOMAIN L2
                                 /\ other \in DOMAIN L => L2[other] = L[other]
                            /\ IF Passed(L, q.ip) < rateLimitRequests
                               THEN /\ q.pc = "handler"
                                    /\ Passed(L2, q.ip) = Passed(L, q.ip) + 1
                               ELSE /\ q.pc = "done"
                                    /\ q.status = StatusTooManyRequests
                                    /\ Passed(L2, q.ip) = Passed(L, q.ip)
      ]_vars

\* ClientA has used its budget on redirects and unlocks together and its next
\* unlock is answered 429, while ClientB's window has room
C21_Witness ==
    LET L == procs[Limiter].keys
    IN  \E p \in Procs \ {Limiter} :
          /\ procs[p].pc = "done" /\ procs[p].status = StatusTooManyRequests
          /\ procs[p].ip = ClientA /\ procs[p].route = UnlockRoute
          /\ Passed(L, ClientA) = rateLimitRequests
          /\ Window(L, ClientA).passed[RedirectRoute] = 25
          /\ Window(L, ClientA).passed[UnlockRoute] = 35
          /\ Passed(L, ClientB) = 1


(***************************************************************************)
(* C22.  GET /:slug answers 301 to the target when the slug's record is    *)
(* live without a password, 302 to the gate page when it is live with a    *)
(* password, and 302 to the not-found page when the slug has no record or  *)
(* the record has expired.  Stated for requests whose answer is decided in *)
(* one step (from the cache, or by FindBySlug finding nothing), with no    *)
(* other request in flight.                                                *)
(***************************************************************************)
C22_RedirectByRecordState ==
    [][\A p \in Procs :
         LET r == procs[p]
             q == procs'[p]
         IN  (/\ Completes(p) /\ Alone(p)
              /\ r.pc \in {"idle", "find"}
              /\ q.op = "RedirectOrGate") =>
                IF Live(q.slug)
                THEN IF store[q.slug].PasswordHash = Nil
                     THEN /\ q.status = StatusMovedPermanently
                          /\ q.body = store[q.slug].TargetURL
                     ELSE q.status = StatusFound /\ q.body = "/gate/"
                ELSE q.status = StatusFound /\ q.body = "/404"]_vars


(***************************************************************************)
(* C23.  Every request is answered with the status documented for its      *)
(* outcome: 400 for a malformed slug, a TTL outside the whitelist or a     *)
(* target that is no http(s) URL; 409 for a slug that is unavailable; 401  *)
(* for a wrong password or an invalid manage token; 404 for an unlock of a *)
(* slug that has no record or whose record has expired; 500 for an error   *)
(* of the store, which ends that request alone.  The unlock is stated for  *)
(* requests whose answer is decided in one step, with no other request in  *)
(* flight.                                                                 *)
(***************************************************************************)
C23_StatusByOutcome ==
    [][\A p \in Procs :
         LET r == procs[p]
             q == procs'[p]
         IN  (r.pc # "done" /\ q.pc = "done") =>
               /\ q.err \in {ErrInvalidSlugFormat, ErrInvalidTTL} =>
                    q.status = StatusBadRequest
               /\ (q.op = "CreateURL" /\ ~validateHTTPURL(q.req.TargetURL)) =>
                    q.status = StatusBadRequest
               /\ q.err = ErrSlugTaken => q.status = StatusConflict
               /\ q.err \in {ErrInvalidPassword, ErrInvalidManageToken} =>
                    q.status = StatusUnauthorized
               /\ (/\ Completes(p) /\ Alone(p) /\ r.pc \in {"idle", "find"}
                   /\ q.op = "UnlockURL" /\ q.http
                   /\ ~Live(q.slug)) =>
                    q.status = StatusNotFound
               /\ q.err \in {ErrStore, ErrAutoSlug} =>
                    /\ q.status = StatusInternalServerError
                    /\ \A o \in Procs \ {p} : procs'[o] = procs[o]]_vars


(***************************************************************************)
(* Properties of Create without a requested slug.                          *)
(***************************************************************************)
\* the characters of a generated slug
IsBase62(slug) ==
    \A k \in 1..Len(slug) : \E c \in 1..Len(base62Chars) : slug[k] = base62Chars[c]

\* C24: a Create without a requested slug assigns a generated slug of exactly
\* 8 characters of the 62-character alphabet which the table did not hold
\* when it was asked, and reports protected = false when no password came with
\* the request; the generator gives up at the tenth candidate in a row that
\* the table holds, and Create then fails with an error other than the
\* conflict, after ten queries and without a write.
C24_GeneratedSlug ==
    [][\A p \in Procs :
         LET r == procs[p]
             q == procs'[p]
         IN  (r.op = "CreateURL" /\ r.req.Slug = NoSlug) =>
               /\ (r.pc = "gen" /\ q.pc = "prepare") =>
                    /\ Len(q.cand) = autoSlugLength
                    /\ IsBase62(q.cand)
                    /\ ~SlugExists(store, q.cand)
               /\ (r.pc = "gen" /\ q.pc = "gen" /\ q.calls # r.calls) =>
                    /\ q.i = r.i + 1
                    /\ q.i < maxAutoSlugTries
                    /\ \E slug \in GenSlugs : SlugExists(store, slug)
               /\ (r.pc = "gen" /\ q.pc = "done") =>
                    /\ r.i = maxAutoSlugTries - 1
                    /\ q.calls = maxAutoSlugTries
                    /\ q.err = ErrAutoSlug
                    /\ q.err # ErrSlugTaken
                    /\ q.status # StatusConflict
                    /\ ~q.wrote
                    /\ q.out = Nil
                    /\ store' = store /\ cache' = cache
               /\ (r.pc = "warm" /\ q.pc = "done") =>
                    /\ q.out # Nil
                    /\ q.out[1].Slug = r.cand
                    /\ Len(q.out[1].Slug) = autoSlugLength
                    /\ IsBase62(q.out[1].Slug)
                    /\ SlugExists(store, q.out[1].Slug)
                    /\ store[q.out[1].Slug].TargetURL = r.req.TargetURL
                    /\ (r.req.Password = "" => ~q.out[1].Protected)]_vars

\* the generator has given up at its tenth candidate, on a table that holds
\* every slug it can deliver
C24_Witness ==
    \E p \in Procs :
       /\ procs[p].op = "CreateURL" /\ procs[p].req.Slug = NoSlug
       /\ procs[p].pc = "done"
       /\ procs[p].err = ErrAutoSlug
       /\ procs[p].calls = maxAutoSlugTries
       /\ \A slug \in GenSlugs : SlugExists(store, slug)


(***************************************************************************)
(* Properties of the configuration.                                        *)
(***************************************************************************)
RequiredNames == { "MYSQL_DSN", "REDIS_ADDR", "BASE_URL" }

\* the value the README documents for a variable that is unset
Documented(env, name, default) == IF env[name] = "" THEN default ELSE env[name]

\* C25: loading the configuration fails exactly when MYSQL_DSN, REDIS_ADDR or
\* BASE_URL is empty; otherwise it succeeds, and APP_PORT, CORS_ALLOWED_ORIGIN
\* and FRONTEND_URL, when unset, have their documented defaults 8080,
\* https://jhermesn.dev and https://jhermesn.dev/encurtador.
C25_OptionalsDefault ==
    (Main \in Procs /\ procs[Main].pc # "load") =>
       LET g == procs[Main]
           required == \A n \in RequiredNames : g.env[n] # ""
       IN  /\ (g.err # ErrNone) <=> ~required
           /\ required =>
                /\ g.cfg # Nil
                /\ g.cfg[1].AppPort = Documented(g.env, "APP_PORT", "8080")
                /\ g.cfg[1].CORSAllowedOrigin =
                     Documented(g.env, "CORS_ALLOWED_ORIGIN", "https://jhermesn.dev")
                /\ g.cfg[1].FrontendURL =
                     Documented(g.env, "FRONTEND_URL", "https://jhermesn.dev/encurtador")


(***************************************************************************)
(* Properties of the stored record.                                        *)
(***************************************************************************)
\* request p's UPDATE has taken its row in this step
Updates(p) == procs[p].pc = "expire" /\ procs'[p].pc = "invalidate"

\* C26: a stored record is changed by ExpireEarly's UPDATE only: in every step
\* a row that stays in the table keeps its target URL, password hash and token
\* hash, its expiration does not grow, and it changes at all only in the
\* UPDATE of an ExpireEarly for its slug with its token, which moves the
\* expiration, and nothing else, to the present, an earlier time.
C26_OnlyExpireEarlyMutates ==
    [][/\ \A s \in DOMAIN store \cap DOMAIN store' :
            LET a == store[s]
                b == store'[s]
            IN  /\ b.TargetURL = a.TargetURL
                /\ b.PasswordHash = a.PasswordHash
                /\ b.ManageTokenHash = a.ManageTokenHash
                /\ b.ExpiresAt <= a.ExpiresAt
                /\ b # a =>
                     \E p \in Procs :
                        /\ Updates(p)
                        /\ procs[p].slug = s
                        /\ Sha256Hex(procs[p].token) = a.ManageTokenHash
                        /\ b = [a EXCEPT !.ExpiresAt = now]
       /\ \A p \in Procs :
            Updates(p) =>
               /\ procs[p].slug \in DOMAIN store
               /\ DOMAIN store' = DOMAIN store
               /\ store'[procs[p].slug].ExpiresAt < store[procs[p].slug].ExpiresAt
               /\ store'[procs[p].slug].ExpiresAt = now]_vars

\* an ExpireEarly has moved the expiration of the earlier link to the present
C26_Witness ==
    \E p \in Procs :
       /\ procs[p].pc = "invalidate"
       /\ procs[p].slug \in DOMAIN store
       /\ store[procs[p].slug] = [EarlierURL EXCEPT !.ExpiresAt = now]
       /\ now < EarlierURL.ExpiresAt


(***************************************************************************)
(* Properties of the cache against the table.                              *)
(***************************************************************************)
\* request p's lookup returns in this step on the slug's present record: from
\* the cache, or with the row it has read
OnPresentRecord(p) ==
    \/ procs[p].pc = "idle"
    \/ procs[p].url = Some(store[procs'[p].slug])

\* C27: once the Create of a slug has returned, a Resolve of the slug made
\* while its record has neither expired nor been expired early returns the
\* target URL and the protection flag of that record, whatever is in the
\* cache and whichever cache calls have failed.  Stated for a Resolve that
\* returns with no other request in flight.
C27_ResolveReturnsCreated ==
    [][\A p \in Procs :
         LET q == procs'[p]
         IN  (/\ Completes(p)
              /\ q.op = "RedirectOrGate"
              /\ Live(q.slug)
              /\ Alone(p)
              /\ OnPresentRecord(p)) =>
                /\ q.out # Nil
                /\ q.out[1].TargetURL = store[q.slug].TargetURL
                /\ q.out[1].Protected = (store[q.slug].PasswordHash # Nil)]_vars


\* C28: a cache entry under a slug is the projection (target URL, protected
\* flag, password hash) of the record the table holds under that slug, the
\* one created last; it is never that of an earlier record of the slug which
\* has been swept and replaced.  Stated for the states where no request is in
\* flight.
C28_EntryProjectsLatestRecord ==
    (\A p \in Procs : procs[p].pc = "idle") =>
       \A slug \in DOMAIN cache \cap DOMAIN store :
          CacheGet(cache, slug) = Some(ToCached(store[slug]))


(***************************************************************************)
(* Properties of the password gate.                                        *)
(***************************************************************************)
\* the slug's record is live and has a password
LiveProtected(slug) == Live(slug) /\ store[slug].PasswordHash # Nil

\* C29: the target URL of a live link that has a password reaches a client
\* only through an unlock with the password of the stored hash: GET /:slug is
\* answered with the redirect to the gate page and never with the target, and
\* an unlock with another password returns no target.  Stated for a request
\* that returns on the slug's present record with no other request in flight.
C29_TargetBehindPassword ==
    [][\A p \in Procs :
         LET q == procs'[p]
         IN  (/\ Completes(p) /\ Alone(p)
              /\ LiveProtected(q.slug)
              /\ OnPresentRecord(p)) =>
                /\ q.op = "RedirectOrGate" =>
                     /\ q.status = StatusFound
                     /\ q.body = "/gate/"
                /\ (/\ q.op = "UnlockURL"
                    /\ ~BcryptCompare(store[q.slug].PasswordHash[1], q.password)) =>
                     /\ q.target = ""
                     /\ q.body # store[q.slug].TargetURL]_vars


(***************************************************************************)
(* Properties of a slug whose record has expired.                          *)
(***************************************************************************)
\* the slug's record has expired and no sweep has deleted it yet
Unswept(slug) == slug \in DOMAIN store /\ store[slug].ExpiresAt <= now

\* C30: a slug whose record has expired and is not swept yet counts as taken:
\* resolveSlug and CheckSlug find it in the table and go on to the suffixed
\* alternatives, so that Create never assigns it and CheckSlug never calls it
\* available, while a Resolve of it (answered in one step, with no other
\* request in flight) returns nothing; rows leave the table in the sweep
\* only, and the slug is assigned again only once its row is gone.
C30_ExpiredSlugStaysTaken ==
    [][/\ \A p \in Procs :
            LET r == procs[p]
                q == procs'[p]
            IN  /\ (r.pc = "exists" /\ q.pc # "exists" /\ Unswept(r.slug)) =>
                     /\ q.pc = "probe"
                     /\ q.op \in {"CreateURL", "CheckSlug"}
                /\ (r.pc = "exists" /\ q.pc = "prepare") =>
                     q.cand = r.slug /\ r.slug \notin DOMAIN store
                /\ (r.pc = "exists" /\ q.pc = "done") =>
                     /\ q.op = "CheckSlug"
                     /\ q.out[1].available
                     /\ r.slug \notin DOMAIN store
                /\ (r.pc = "probe" /\ q.pc = "done" /\ q.op = "CheckSlug") =>
                     ~q.out[1].available
                /\ (r.pc = "probe" /\ q.pc = "done" /\ q.op = "CreateURL") =>
                     q.err = ErrSlugTaken
                /\ (r.pc = "probe" /\ q.pc = "prepare") => q.cand # r.slug
                /\ (r.pc = "insert" /\ q.pc = "warm") => r.cand \notin DOMAIN store
                /\ (/\ Completes(p) /\ Alone(p)
                    /\ r.pc \in {"idle", "find"}
                    /\ q.op = "RedirectOrGate"
                    /\ Unswept(q.slug)) => q.out = Nil
       /\ (DOMAIN store \ DOMAIN store' # {}) =>
            /\ store' = DeleteExpired(store, now)
            /\ \A slug \in DOMAIN store \ DOMAIN store' : store[slug].ExpiresAt < now]_vars

====
